---- MODULE Spec2Model ----
(***************************************************************************)
(* Smart meter simulation (src/app.py): the virtual clock, the reading     *)
(* generator, the pending cache and the daily / monthly archive tiers.     *)
(*                                                                         *)
(* Representation.  A calendar date is the integer YYYYMMDD and a month    *)
(* the integer YYYYMM (what strftime("%Y%m%d") / strftime("%Y%m") print).  *)
(* A time of day is the minute of the day (all times of the program are    *)
(* whole minutes, since the clock starts at 00:00:00 and is advanced by    *)
(* whole minutes).  A meter value is counted in 1/Scale of 0.001, so that  *)
(* round(value, 3) is a real rounding and not the identity.                *)
(***************************************************************************)
EXTENDS Integers, Sequences, FiniteSets, TLC

VARIABLES
    accounts,         \* all_account.json: the meter_IDs, in file order
    current_time,     \* current_time.json: [date, min]
    latest_readings,  \* ReadingGenerator.latest_readings (memory, unrounded)
    daily_cache,      \* ReadingGenerator.daily_cache (memory)
    cache_file,       \* daily_cache.json
    folders,          \* the YYYYMM directories under data/daily_readings
    daily_files,      \* readings_YYYYMMDD.json, by date
    detail_files,     \* daily_YYYYMM_detail.json, by month
    year_dirs,        \* the YYYY directories under data/month_readings
    summary_files,    \* month_readings_YYYYMM.json, by month
    result,           \* what the last operation returned (and the calls it made)
    pc,               \* position of the advance in flight ("idle" when none)
    req,              \* the locals of the advance in flight
    advances          \* number of advances made since the last reset

vars == <<accounts, current_time, latest_readings, daily_cache, cache_file, folders,
          daily_files, detail_files, year_dirs, summary_files, result, pc, req, advances>>

----------------------------------------------------------------------------
(* Bounds of the model *)

\* advances per run (registrations, restarts and resets are not counted)
MaxAdvances == 2

\* advances made before a jump of a year or more
MaxAdvancesBeforeLongJump == 0

\* meter-days one advance may generate: (registered meters) x (calendar days the
\* advance touches); a jump of a year is made with one meter at most
MaxMeterDays == 366

\* the meter ids of registration requests: ids are opaque, so a request carries a
\* registered id or the next id of this list
MeterIds == <<"M1", "M2">>

\* the iterations of the half-hour loop of one day that are looked at
MaxSlots == 48

\* the increments random.uniform(0, 1) may return, in 1/Scale of 0.001; one is
\* drawn per advance and used for every reading of that advance
Increments == {2}

----------------------------------------------------------------------------
(* Calendar: datetime, timedelta, calendar.monthrange *)

Scale == 3

EpochDate == 20240501

Year(d) == d \div 10000
Month(d) == (d \div 100) % 100
Day(d) == d % 100
YM(d) == d \div 100
MkDate(y, m, d) == y * 10000 + m * 100 + d
YMYear(ym) == ym \div 100
YMMonth(ym) == ym % 100

IsLeap(y) == (y % 4 = 0 /\ y % 100 # 0) \/ y % 400 = 0

DaysInMonth(y, m) ==
    IF m = 2 THEN (IF IsLeap(y) THEN 29 ELSE 28)
    ELSE IF m \in {4, 6, 9, 11} THEN 30 ELSE 31

NextDay(d) ==
    IF Day(d) < DaysInMonth(Year(d), Month(d)) THEN d + 1
    ELSE IF Month(d) < 12 THEN MkDate(Year(d), Month(d) + 1, 1)
    ELSE MkDate(Year(d) + 1, 1, 1)

PrevDay(d) ==
    IF Day(d) > 1 THEN d - 1
    ELSE IF Month(d) > 1 THEN MkDate(Year(d), Month(d) - 1, DaysInMonth(Year(d), Month(d) - 1))
    ELSE MkDate(Year(d) - 1, 12, 31)

NextYM(ym) == IF YMMonth(ym) < 12 THEN ym + 1 ELSE (YMYear(ym) + 1) * 100 + 1
PrevYM(ym) == IF YMMonth(ym) > 1 THEN ym - 1 ELSE (YMYear(ym) - 1) * 100 + 12

RECURSIVE AddDays(_, _)
AddDays(d, n) == IF n = 0 THEN d ELSE AddDays(NextDay(d), n - 1)

Hour(min) == (min % 1440) \div 60

\* datetime + timedelta(minutes=n)
AddMinutes(t, n) ==
    LET total == t.min + n
    IN  [date |-> AddDays(t.date, total \div 1440), min |-> total % 1440]

\* datetime < datetime
TimeLT(a, b) == a.date < b.date \/ (a.date = b.date /\ a.min < b.min)

Range(s) == {s[i] : i \in 1..Len(s)}

----------------------------------------------------------------------------
(* Values *)

\* round(value, 3): to the nearest multiple of 0.001 (= Scale units)
Round3(v) == ((2 * v + Scale) \div (2 * Scale)) * Scale

\* MeterReading(meter_id, reading_time, meter_value); reading_time = date + min
MeterReading(m, t, v) == [meter_id |-> m, date |-> t.date, min |-> t.min, meter_value |-> v]

\* reading_time strings compared (ISO-8601, fixed width: the order of the strings
\* is that of the date, then of the time)
ReadingTimeLT(a, b) == a.date < b.date \/ (a.date = b.date /\ a.min < b.min)

\* an absent file
NoFile == [exists |-> FALSE, keys |-> <<>>, data |-> <<>>]

\* the state of the system as one record, for the operators that transform it
Sys ==
    [accounts |-> accounts, current_time |-> current_time,
     latest_readings |-> latest_readings, daily_cache |-> daily_cache,
     cache_file |-> cache_file, folders |-> folders, daily_files |-> daily_files,
     detail_files |-> detail_files, year_dirs |-> year_dirs,
     summary_files |-> summary_files,
     \* locals of the call in progress: the result's readings_count and sample,
     \* and the archiver calls made so far
     readings_count |-> 0, sample_readings |-> <<>>, calls |-> <<>>]

SetSys(s) ==
    /\ accounts' = s.accounts
    /\ current_time' = s.current_time
    /\ latest_readings' = s.latest_readings
    /\ daily_cache' = s.daily_cache
    /\ cache_file' = s.cache_file
    /\ folders' = s.folders
    /\ daily_files' = s.daily_files
    /\ detail_files' = s.detail_files
    /\ year_dirs' = s.year_dirs
    /\ summary_files' = s.summary_files

----------------------------------------------------------------------------
(* Dictionaries (JSON objects): functions; the empty one is << >> *)

\* (@@ makes the entries be evaluated once, not at every use)
MkDict(S, F(_)) == IF S = {} THEN <<>> ELSE [k \in S |-> F(k)] @@ <<>>

Put(f, k, v) == LET G(x) == IF x = k THEN v ELSE f[x] IN MkDict(DOMAIN f \cup {k}, G)

Drop(f, S) == LET G(k) == f[k] IN MkDict(DOMAIN f \ S, G)

\* the distinct elements of s[lo..hi], in the order of their first appearance
\* (the key order of a dict filled while iterating s)
RECURSIVE FirstSeen(_, _, _)
FirstSeen(s, lo, hi) ==
    IF lo > hi THEN <<>>
    ELSE IF lo = hi THEN <<s[lo]>>
    ELSE LET mid == (lo + hi) \div 2
             left == FirstSeen(s, lo, mid)
             seen == Range(left)
             right == FirstSeen(s, mid + 1, hi)
             New(x) == x \notin seen
         IN  left \o SelectSeq(right, New)

----------------------------------------------------------------------------
(* TimeManager, AccountManager *)

\* TimeManager.get_current_time: the initial time when the file is missing
InitialTime == [date |-> EpochDate, min |-> 0]

\* a faulty test of register_account, which finds no id registered
AlreadyExistsNever(accs, meter_id) == FALSE

\* AccountManager.register_account: TRUE iff the id is already registered
AlreadyExists(accs, meter_id) == \E i \in 1..Len(accs) : accs[i] = meter_id

----------------------------------------------------------------------------
(* ReadingGenerator *)

\* _calculate_next_time; Units are the recognised ones
Units == {"minutes", "hours", "days", "months"}

\* a faulty _calculate_next_time, which keeps the day of the month as it is
CalculateNextTimeNoClamp(t, unit, value) ==
    IF unit = "minutes" THEN AddMinutes(t, value)
    ELSE IF unit = "hours" THEN AddMinutes(t, 60 * value)
    ELSE IF unit = "days" THEN [date |-> AddDays(t.date, value), min |-> t.min]
    ELSE LET next_month0 == Month(t.date) + value
             next_year == Year(t.date) + (next_month0 - 1) \div 12
             next_month == ((next_month0 - 1) % 12) + 1
         IN  [date |-> MkDate(next_year, next_month, Day(t.date)), min |-> t.min]

CalculateNextTime(t, unit, value) ==
    IF unit = "minutes" THEN AddMinutes(t, value)
    ELSE IF unit = "hours" THEN AddMinutes(t, 60 * value)
    ELSE IF unit = "days" THEN [date |-> AddDays(t.date, value), min |-> t.min]
    ELSE LET next_month0 == Month(t.date) + value
             next_year == Year(t.date) + (next_month0 - 1) \div 12
             next_month == ((next_month0 - 1) % 12) + 1
             last_day == DaysInMonth(next_year, next_month)
             next_day == IF Day(t.date) < last_day THEN Day(t.date) ELSE last_day
         IN  [date |-> MkDate(next_year, next_month, next_day), min |-> t.min]

\* datetime.time(23, 59, 59), compared with whole-minute times
DayEndMin == 1439

\* the while loop of generate_readings_for_day: the reading times it emits,
\* from `current` (a minute of the day) up to day_end. The i-th iteration appends
\* a reading when `current < day_end` holds and neither break is taken; the loop
\* ends at the first iteration that does not, after k readings
SlotLoop(current, day_end) ==
    LET Appends(i) ==
            /\ current + 30 * (i - 1) < day_end
            /\ ~(current + 30 * i > day_end)
            /\ ~(Hour(current + 30 * i) = 0)
        k == CHOOSE n \in 0..MaxSlots : ~Appends(n + 1) /\ \A j \in 1..n : Appends(j)
    IN  <<>> \o [i \in 1..k |-> current + 30 * i]

\* the reading times of a day generated from 00:00 to 23:59:59 (evaluated once)
FullDaySlots == SlotLoop(60, DayEndMin)

\* the normalised start of generate_readings_for_day
NormalizedStart(start_min) ==
    LET current == (start_min \div 60) * 60
    IN  IF Hour(current) = 0 THEN 60 ELSE current

\* latest_readings.get(meter_id, 0)
PreviousValue(latest, m) == IF m \in DOMAIN latest THEN latest[m] ELSE 0

\* a faulty generate_readings_for_day, without the maintenance period: a reading
\* every 30 minutes from the hour of the start up to end_min
GenerateReadingsForDayNoMaintenance(accs, latest, date, start_min, end_min, inc) ==
    LET current == (start_min \div 60) * 60
        n == Len(accs)
        k == IF current < end_min THEN (end_min - current) \div 30 ELSE 0
        value(j, i) == PreviousValue(latest, accs[j]) + i * inc
        readings ==
            [x \in 1..(k * n) |->
                LET i == ((x - 1) \div n) + 1
                    j == ((x - 1) % n) + 1
                IN  [meter_id |-> accs[j], date |-> date, min |-> current + 30 * i,
                     meter_value |-> Round3(value(j, i))]]
        Last(m) == IF m \in Range(accs) THEN PreviousValue(latest, m) + k * inc ELSE latest[m]
        latest2 == IF k = 0 \/ n = 0 THEN latest
                   ELSE MkDict(DOMAIN latest \cup Range(accs), Last)
    IN  [readings |-> <<>> \o readings, latest |-> latest2]

\* generate_readings_for_day on one date, from start_min to end_min, each call of
\* random.uniform returning inc: [readings, latest]
GenerateReadingsForDay(accs, latest, date, start_min, end_min, inc) ==
    LET current == NormalizedStart(start_min)
        slots == IF current = 60 /\ end_min = DayEndMin THEN FullDaySlots
                 ELSE SlotLoop(current, end_min)
        n == Len(accs)
        k == Len(slots)
        value(j, i) == PreviousValue(latest, accs[j]) + i * inc
        readings ==
            [x \in 1..(k * n) |->
                LET i == ((x - 1) \div n) + 1
                    j == ((x - 1) % n) + 1
                IN  [meter_id |-> accs[j], date |-> date, min |-> slots[i],
                     meter_value |-> Round3(value(j, i))]]
        Last(m) == IF m \in Range(accs) THEN PreviousValue(latest, m) + k * inc ELSE latest[m]
        latest2 == IF k = 0 \/ n = 0 THEN latest
                   ELSE MkDict(DOMAIN latest \cup Range(accs), Last)
    IN  [readings |-> <<>> \o readings, latest |-> latest2]

\* the dates from day `from` to day `to` of month ym, in order
DaysOfMonth(ym, from, to) == [i \in 1..(to - from + 1) |-> ym * 100 + from + i - 1]

\* the dates d1 .. d2 (both included), in order
RECURSIVE DatesFromTo(_, _)
DatesFromTo(d1, d2) ==
    IF d1 > d2 THEN <<>>
    ELSE IF YM(d1) = YM(d2) THEN <<>> \o DaysOfMonth(YM(d1), Day(d1), Day(d2))
    ELSE (<<>> \o DaysOfMonth(YM(d1), Day(d1), DaysInMonth(Year(d1), Month(d1))))
         \o DatesFromTo(NextYM(YM(d1)) * 100 + 1, d2)

\* the calls of generate_readings_for_day that generate_readings makes, in order:
\* the first day to 23:59:59, the middle days, the last day from 00:00
DaySegments(start_time, end_time) ==
    IF start_time.date = end_time.date
    THEN << [date |-> start_time.date, from |-> start_time.min, to |-> end_time.min] >>
    ELSE LET middle == DatesFromTo(NextDay(start_time.date), PrevDay(end_time.date))
         IN  << [date |-> start_time.date, from |-> start_time.min, to |-> DayEndMin] >>
             \o [i \in 1..Len(middle) |-> [date |-> middle[i], from |-> 0, to |-> DayEndMin]]
             \o << [date |-> end_time.date, from |-> 0, to |-> end_time.min] >>

\* generate_readings_for_day called on segs[lo..hi] in order, latest_readings carried
\* from each call to the next (the range is halved to keep the evaluation shallow)
RECURSIVE GenerateSegments(_, _, _, _, _, _)
GenerateSegments(accs, latest, segs, lo, hi, inc) ==
    IF lo > hi THEN [readings |-> <<>>, latest |-> latest]
    ELSE IF lo = hi
    THEN GenerateReadingsForDay(accs, latest, segs[lo].date, segs[lo].from, segs[lo].to, inc)
    ELSE LET mid == (lo + hi) \div 2
             left == GenerateSegments(accs, latest, segs, lo, mid, inc)
             right == GenerateSegments(accs, left.latest, segs, mid + 1, hi, inc)
         IN  [readings |-> left.readings \o right.readings, latest |-> right.latest]

\* generate_readings
GenerateReadings(accs, latest, start_time, end_time, inc) ==
    LET segs == DaySegments(start_time, end_time)
    IN  GenerateSegments(accs, latest, segs, 1, Len(segs), inc)

----------------------------------------------------------------------------
(* CacheProcessor *)

\* a faulty save_cache, which assigns each meter's list instead of appending to it:
\* only the last reading of each meter is written
SaveCacheKeepsLast(file, cache) ==
    IF cache = <<>> THEN file
    ELSE LET ids == <<>> \o [i \in 1..Len(cache) |-> cache[i].meter_id]
             keys == FirstSeen(ids, 1, Len(ids))
             Of(m) ==
                 LET Mine(r) == r.meter_id = m
                     mine == SelectSeq(cache, Mine)
                 IN  << [date |-> mine[Len(mine)].date, min |-> mine[Len(mine)].min,
                         meter_value |-> mine[Len(mine)].meter_value] >>
         IN  [exists |-> TRUE, keys |-> keys, data |-> MkDict(Range(keys), Of)]

\* save_cache: nothing is written for an empty cache
SaveCache(file, cache) ==
    IF cache = <<>> THEN file
    ELSE LET ids == <<>> \o [i \in 1..Len(cache) |-> cache[i].meter_id]
             keys == FirstSeen(ids, 1, Len(ids))
             Of(m) ==
                 LET Mine(r) == r.meter_id = m
                     mine == SelectSeq(cache, Mine)
                 IN  <<>> \o [i \in 1..Len(mine) |->
                        [date |-> mine[i].date, min |-> mine[i].min,
                         meter_value |-> mine[i].meter_value]]
         IN  [exists |-> TRUE, keys |-> keys, data |-> MkDict(Range(keys), Of)]

\* the readings of keys[i..], in file order
RECURSIVE LoadFrom(_, _)
LoadFrom(file, i) ==
    IF i > Len(file.keys) THEN <<>>
    ELSE LET m == file.keys[i]
             rs == file.data[m]
         IN  (<<>> \o [j \in 1..Len(rs) |->
                 [meter_id |-> m, date |-> rs[j].date, min |-> rs[j].min,
                  meter_value |-> rs[j].meter_value]])
             \o LoadFrom(file, i + 1)

\* load_cache
LoadCache(file) == IF file.exists THEN LoadFrom(file, 1) ELSE <<>>

\* the index in lo..hi of the first element of sorted(rs, key=reading_time,
\* reverse=True): the sort is stable, so of the readings with the greatest
\* reading_time it is the one that comes first in rs
RECURSIVE TopIndex(_, _, _)
TopIndex(rs, lo, hi) ==
    IF lo = hi THEN lo
    ELSE LET mid == (lo + hi) \div 2
             left == TopIndex(rs, lo, mid)
             right == TopIndex(rs, mid + 1, hi)
         IN  IF ReadingTimeLT(rs[left], rs[right]) THEN right ELSE left

\* _initialize_latest_readings: per meter of the file with readings, the value of
\* its reading with the latest reading_time
InitializeLatestReadings(file) ==
    LET Latest(m) == file.data[m][TopIndex(file.data[m], 1, Len(file.data[m]))].meter_value
        filled == {m \in Range(file.keys) : file.data[m] # <<>>}
    IN  IF file.exists THEN MkDict(filled, Latest) ELSE <<>>

----------------------------------------------------------------------------
(* DirectoryManager, DailyProcessor *)

\* get_month_directory: os.makedirs(..., exist_ok=True) creates the directory
GetMonthDirectory(dirs, ym) == {d : d \in dirs \cup {ym}}

\* the content of a file that json.load cannot parse (a truncated write): it has
\* no meter, only this mark
Unparsable == [unparsable |-> TRUE]

\* json.load(f) does not raise JSONDecodeError
Parsable(content) == "unparsable" \notin DOMAIN content

\* strftime("%H:%M") of a time of day, as the number HHMM
HHMM(min) == (min \div 60) * 100 + (min % 60)

\* daily_data of DailyProcessor.process: per meter of the readings, the payload
\* {date, readings: [{time, value}]}
DailyData(readings, process_date) ==
    LET ids == {readings[i].meter_id : i \in 1..Len(readings)}
        Of(m) ==
            LET Mine(r) == r.meter_id = m
                mine == SelectSeq(readings, Mine)
            IN  [date |-> process_date,
                 readings |-> <<>> \o [i \in 1..Len(mine) |->
                     [time |-> HHMM(mine[i].min), value |-> Round3(mine[i].meter_value)]]]
    IN  MkDict(ids, Of)

\* a faulty fold, which puts the payload of the day before the earlier days
FoldDayPrepends(monthly_data, day_data) ==
    LET Of(m) ==
            IF m \in DOMAIN day_data
            THEN <<day_data[m]>>
                 \o (IF m \in DOMAIN monthly_data THEN monthly_data[m] ELSE <<>>)
            ELSE monthly_data[m]
    IN  MkDict(DOMAIN monthly_data \cup DOMAIN day_data, Of)

\* a faulty fold, which assigns the payload of the day instead of appending it: the
\* earlier days of the meter are lost
FoldDayReplaces(monthly_data, day_data) ==
    LET Of(m) == IF m \in DOMAIN day_data THEN <<day_data[m]>> ELSE monthly_data[m]
    IN  MkDict(DOMAIN monthly_data \cup DOMAIN day_data, Of)

\* monthly_data[meter_id].append(meter_data) for every meter of a daily file
FoldDay(monthly_data, day_data) ==
    LET Of(m) ==
            IF m \in DOMAIN day_data
            THEN (IF m \in DOMAIN monthly_data THEN monthly_data[m] ELSE <<>>)
                 \o <<day_data[m]>>
            ELSE monthly_data[m]
    IN  MkDict(DOMAIN monthly_data \cup DOMAIN day_data, Of)

\* a faulty process, which folds the daily file of the day before and leaves it
\* on disk
ProcessKeepsYesterday(s, readings, process_date) ==
    IF readings = <<>> THEN s
    ELSE LET yesterday == PrevDay(process_date)
             ym == YM(yesterday)
             monthly_data == IF ym \in DOMAIN s.detail_files /\ Parsable(s.detail_files[ym])
                             THEN s.detail_files[ym] ELSE <<>>
             has_yesterday == /\ yesterday \in DOMAIN s.daily_files
                              /\ Parsable(s.daily_files[yesterday])
             folded == IF has_yesterday
                       THEN FoldDay(monthly_data, s.daily_files[yesterday])
                       ELSE monthly_data
         IN  [s EXCEPT
                !.folders = GetMonthDirectory(GetMonthDirectory(@, ym), YM(process_date)),
                !.detail_files = Put(@, ym, folded),
                !.daily_files = Put(@, process_date, DailyData(readings, process_date)),
                !.calls = Append(@, [op |-> "process", arg |-> process_date])]

\* a faulty process, which gives up when the daily file of the day before cannot be
\* read: nothing is written
ProcessNeedsYesterday(s, readings, process_date) ==
    IF readings = <<>> THEN s
    ELSE LET yesterday == PrevDay(process_date)
             ym == YM(yesterday)
             monthly_data == IF ym \in DOMAIN s.detail_files THEN s.detail_files[ym] ELSE <<>>
         IN  IF yesterday \in DOMAIN s.daily_files /\ Parsable(s.daily_files[yesterday])
             THEN [s EXCEPT
                    !.folders = GetMonthDirectory(GetMonthDirectory(@, ym), YM(process_date)),
                    !.detail_files = Put(@, ym, FoldDay(monthly_data, s.daily_files[yesterday])),
                    !.daily_files = Put(Drop(@, {yesterday}), process_date,
                                        DailyData(readings, process_date)),
                    !.calls = Append(@, [op |-> "process", arg |-> process_date])]
             ELSE s

\* DailyProcessor.process(daily_cache, process_date)
Process(s, readings, process_date) ==
    IF readings = <<>> THEN s
    ELSE LET yesterday == PrevDay(process_date)
             ym == YM(yesterday)
             \* lines 280-286: an absent or unparsable detail file gives {}
             monthly_data == IF ym \in DOMAIN s.detail_files /\ Parsable(s.detail_files[ym])
                             THEN s.detail_files[ym] ELSE <<>>
             \* lines 288-298: json.load raises before anything is appended or removed
             has_yesterday == /\ yesterday \in DOMAIN s.daily_files
                              /\ Parsable(s.daily_files[yesterday])
             folded == IF has_yesterday
                       THEN FoldDay(monthly_data, s.daily_files[yesterday])
                       ELSE monthly_data
             kept == IF has_yesterday THEN Drop(s.daily_files, {yesterday}) ELSE s.daily_files
         IN  [s EXCEPT
                !.folders = GetMonthDirectory(GetMonthDirectory(@, ym), YM(process_date)),
                !.detail_files = Put(@, ym, folded),
                !.daily_files = Put(kept, process_date, DailyData(readings, process_date)),
                !.calls = Append(@, [op |-> "process", arg |-> process_date])]

\* Process on dates[lo..hi] in order, each with the readings of its date (the
\* range is halved to keep the evaluation shallow)
RECURSIVE ProcessDates(_, _, _, _, _)
ProcessDates(s, by_date, dates, lo, hi) ==
    IF lo > hi THEN s
    ELSE IF lo = hi THEN Process(s, by_date[dates[lo]], dates[lo])
    ELSE LET mid == (lo + hi) \div 2
             left == ProcessDates(s, by_date, dates, lo, mid)
         IN  \* the test makes the first half be evaluated before the second
             IF DOMAIN left = {} THEN left
             ELSE ProcessDates(left, by_date, dates, mid + 1, hi)

----------------------------------------------------------------------------
(* MonthlyProcessor *)

\* all_readings of MonthlyProcessor.archive for one meter: the readings of its
\* day payloads days[lo..hi], in file order, each with its date (the range is
\* halved to keep the evaluation shallow)
RECURSIVE AllReadings(_, _, _)
AllReadings(days, lo, hi) ==
    IF lo > hi THEN <<>>
    ELSE IF lo = hi
    THEN <<>> \o [j \in 1..Len(days[lo].readings) |->
              [date |-> days[lo].date, time |-> days[lo].readings[j].time,
               value |-> days[lo].readings[j].value]]
    ELSE LET mid == (lo + hi) \div 2
         IN  AllReadings(days, lo, mid) \o AllReadings(days, mid + 1, hi)

\* the sort keys f"{date} {time}" compared (fixed width: the order of the strings
\* is that of the date, then of the time)
SortKeyLT(a, b) == a.date < b.date \/ (a.date = b.date /\ a.time < b.time)

\* index in lo..hi of the element that all_readings.sort(key=datetime) puts first:
\* the sort is stable, so of the least keys the one that comes first
RECURSIVE FirstSorted(_, _, _)
FirstSorted(rs, lo, hi) ==
    IF lo = hi THEN lo
    ELSE LET mid == (lo + hi) \div 2
             left == FirstSorted(rs, lo, mid)
             right == FirstSorted(rs, mid + 1, hi)
         IN  IF SortKeyLT(rs[right], rs[left]) THEN right ELSE left

\* index of the element the sort puts last: of the greatest keys the one that comes last
RECURSIVE LastSorted(_, _, _)
LastSorted(rs, lo, hi) ==
    IF lo = hi THEN lo
    ELSE LET mid == (lo + hi) \div 2
             left == LastSorted(rs, lo, mid)
             right == LastSorted(rs, mid + 1, hi)
         IN  IF SortKeyLT(rs[right], rs[left]) THEN left ELSE right

\* a faulty monthly_data, which does not sort all_readings: the first and the last
\* reading in file order are kept
MonthlyDataUnsorted(detail_data, month_key) ==
    LET with_readings == {m \in DOMAIN detail_data : AllReadings(detail_data[m], 1, Len(detail_data[m])) # <<>>}
        Of(m) ==
            LET all_readings == AllReadings(detail_data[m], 1, Len(detail_data[m]))
            IN  [month_key |-> month_key,
                 readings |-> << all_readings[1], all_readings[Len(all_readings)] >>]
    IN  MkDict(with_readings, Of)

\* monthly_data of archive: per meter with readings, {month_key: {readings: [first, last]}}
MonthlyData(detail_data, month_key) ==
    LET with_readings == {m \in DOMAIN detail_data : AllReadings(detail_data[m], 1, Len(detail_data[m])) # <<>>}
        Of(m) ==
            LET all_readings == AllReadings(detail_data[m], 1, Len(detail_data[m]))
            IN  [month_key |-> month_key,
                 readings |-> << all_readings[FirstSorted(all_readings, 1, Len(all_readings))],
                                 all_readings[LastSorted(all_readings, 1, Len(all_readings))] >>]
    IN  MkDict(with_readings, Of)

\* a faulty _cleanup_old_readings, which removes the old monthly summaries too
CleanupOldReadingsAndSummaries(s, current_ym) ==
    LET cutoff == PrevYM(current_ym)
        old == {f \in s.folders : f < cutoff}
    IN  [s EXCEPT
           !.folders = {f : f \in @ \ old},
           !.daily_files = Drop(@, {d \in DOMAIN @ : YM(d) \in old}),
           !.detail_files = Drop(@, DOMAIN @ \cap old),
           !.summary_files = Drop(@, {ym \in DOMAIN @ : ym < cutoff})]

\* _cleanup_old_readings(current_month_first): shutil.rmtree of every folder whose
\* month is before the month preceding the current one
CleanupOldReadings(s, current_ym) ==
    LET cutoff == PrevYM(current_ym)
        old == {f \in s.folders : f < cutoff}
    IN  [s EXCEPT
           !.folders = {f : f \in @ \ old},
           !.daily_files = Drop(@, {d \in DOMAIN @ : YM(d) \in old}),
           !.detail_files = Drop(@, DOMAIN @ \cap old)]

\* the last calendar day of a month
LastDayOf(ym) == ym * 100 + DaysInMonth(YMYear(ym), YMMonth(ym))

\* a faulty fold of the last day, which leaves the daily file in place
ForcedFoldKeepsFile(s, last_month) ==
    LET last_day == LastDayOf(last_month)
        detail == IF last_month \in DOMAIN s.detail_files THEN s.detail_files[last_month] ELSE <<>>
    IN  IF last_day \in DOMAIN s.daily_files
        THEN [s EXCEPT
                !.detail_files = Put(@, last_month, FoldDay(detail, s.daily_files[last_day]))]
        ELSE s

\* a faulty archive, which never folds the daily file of the last day of the month
ForcedFoldNever(s, last_month) == s

\* lines 372-395 of archive: the daily file of the last day of last_month, if it
\* still exists, is folded into the month's detail file and removed
ForcedFold(s, last_month) ==
    LET last_day == LastDayOf(last_month)
        detail == IF last_month \in DOMAIN s.detail_files /\ Parsable(s.detail_files[last_month])
                  THEN s.detail_files[last_month] ELSE <<>>
        \* an unparsable daily file adds nothing, and is removed all the same (line 395)
        folded == IF Parsable(s.daily_files[last_day])
                  THEN FoldDay(detail, s.daily_files[last_day]) ELSE detail
    IN  IF last_day \in DOMAIN s.daily_files
        THEN [s EXCEPT
                !.detail_files = Put(@, last_month, folded),
                !.daily_files = Drop(@, {last_day})]
        ELSE s

\* lines 411-464 of archive: the summary is written when the detail file exists;
\* when json.load raises, the exception is caught and nothing is written
WriteSummary(s, last_month) ==
    IF last_month \in DOMAIN s.detail_files /\ Parsable(s.detail_files[last_month])
    THEN [s EXCEPT !.summary_files =
             Put(@, last_month, MonthlyData(s.detail_files[last_month], last_month))]
    ELSE s

\* a faulty archive, without the test of the system start date
ArchiveNoEpochSkip(s, current_ym) ==
    LET last_month == PrevYM(current_ym)
        called == [s EXCEPT !.calls = Append(@, [op |-> "archive", arg |-> current_ym])]
        in_dir == [called EXCEPT !.folders = GetMonthDirectory(@, last_month)]
        folded == ForcedFold(in_dir, last_month)
        in_year == [folded EXCEPT !.year_dirs = {y : y \in @ \cup {YMYear(last_month)}}]
    IN  CleanupOldReadings(WriteSummary(in_year, last_month), current_ym)

\* MonthlyProcessor.archive(current_date), current_date in month current_ym
Archive(s, current_ym) ==
    LET last_month == PrevYM(current_ym)
        called == [s EXCEPT !.calls = Append(@, [op |-> "archive", arg |-> current_ym])]
        in_dir == [called EXCEPT !.folders = GetMonthDirectory(@, last_month)]
        folded == ForcedFold(in_dir, last_month)
        in_year == [folded EXCEPT !.year_dirs = {y : y \in @ \cup {YMYear(last_month)}}]
    IN  IF last_month * 100 + 1 < EpochDate THEN called
        ELSE CleanupOldReadings(WriteSummary(in_year, last_month), current_ym)

\* a faulty loop of archive_all, which stops before the month of the end
RECURSIVE ArchiveLoopStopsEarly(_, _, _)
ArchiveLoopStopsEarly(s, current, end) ==
    IF current < end
    THEN LET archived == Archive(s, current)
         IN  IF DOMAIN archived = {} THEN archived
             ELSE ArchiveLoopStopsEarly(archived, NextYM(current), end)
    ELSE s

\* the while loop of archive_all: archive(current) for current up to end
RECURSIVE ArchiveLoop(_, _, _)
ArchiveLoop(s, current, end) ==
    IF current <= end
    THEN LET archived == Archive(s, current)
         IN  \* the test makes the call be evaluated before the next one
             IF DOMAIN archived = {} THEN archived
             ELSE ArchiveLoop(archived, NextYM(current), end)
    ELSE s

\* MonthlyProcessor.archive_all(start_date, current_date)
ArchiveAll(s, start_date, current_date) ==
    LET start0 == YM(start_date.date)
        end0 == YM(current_date.date)
        start == IF start0 > end0 THEN end0 ELSE start0
        end == IF start0 > end0 THEN start0 ELSE end0
        called == [s EXCEPT !.calls = Append(@, [op |-> "archive_all", arg |-> start0])]
    IN  ArchiveLoop(called, NextYM(start), end)

----------------------------------------------------------------------------
(* SmartMeterSystem.collect_readings, step by step *)

\* ReadingGenerator.collect (line 615): generate over [old_time, next_time), append
\* to the cache in memory, and save the clock
Collect(s, unit, value, inc) ==
    LET next_time == CalculateNextTime(s.current_time, unit, value)
        gen == GenerateReadings(s.accounts, s.latest_readings, s.current_time, next_time, inc)
    IN  [s EXCEPT !.latest_readings = gen.latest,
                  !.daily_cache = @ \o gen.readings,
                  !.current_time = next_time,
                  !.readings_count = Len(gen.readings),
                  !.sample_readings = SubSeq(gen.readings, 1, IF Len(gen.readings) < 3
                                                              THEN Len(gen.readings) ELSE 3)]

\* cache_processor.save_cache(daily_cache) (lines 618 and 642)
SaveCacheStep(s) == [s EXCEPT !.cache_file = SaveCache(@, s.daily_cache)]

\* readings_by_date of collect_readings: the readings of one completed date
ReadingsOn(completed, date) ==
    LET On(r) == r.date = date
    IN  SelectSeq(completed, On)

\* a faulty day rollover, which empties the cache after the commits: the readings
\* of the new date are lost
DailyRolloverClearsCache(s, old_time, new_time) ==
    IF old_time.date = new_time.date THEN s
    ELSE LET Completed(r) == r.date < new_time.date
             completed == SelectSeq(s.daily_cache, Completed)
             dates0 == <<>> \o [i \in 1..Len(completed) |-> completed[i].date]
             dates == FirstSeen(dates0, 1, Len(dates0))
             OnDate(d) == ReadingsOn(completed, d)
             by_date == MkDict(Range(dates), OnDate)
             processed == ProcessDates(s, by_date, dates, 1, Len(dates))
         IN  [processed EXCEPT !.daily_cache = <<>>]

\* a faulty day rollover, without the test of the date: every advance commits the
\* cached readings, those of the current date too
DailyRolloverCommitsToday(s, old_time, new_time) ==
    LET dates0 == <<>> \o [i \in 1..Len(s.daily_cache) |-> s.daily_cache[i].date]
        dates == FirstSeen(dates0, 1, Len(dates0))
        OnDate(d) == ReadingsOn(s.daily_cache, d)
        by_date == MkDict(Range(dates), OnDate)
        Current(r) == r.date = new_time.date
        processed == ProcessDates(s, by_date, dates, 1, Len(dates))
    IN  [processed EXCEPT !.daily_cache = SelectSeq(s.daily_cache, Current)]

\* the day rollover (lines 621-640)
DailyRollover(s, old_time, new_time) ==
    IF old_time.date = new_time.date THEN s
    ELSE LET Completed(r) == r.date < new_time.date
             Current(r) == r.date = new_time.date
             completed == SelectSeq(s.daily_cache, Completed)
             dates0 == <<>> \o [i \in 1..Len(completed) |-> completed[i].date]
             dates == FirstSeen(dates0, 1, Len(dates0))
             months == {YM(dates[i]) : i \in 1..Len(dates)}
             InMonth(ym) == LET In(r) == YM(r.date) = ym IN SelectSeq(completed, In)
             by_month == MkDict(months, InMonth)
             OnDate(d) == ReadingsOn(by_month[YM(d)], d)
             by_date == MkDict(Range(dates), OnDate)
             processed == ProcessDates(s, by_date, dates, 1, Len(dates))
         IN  [processed EXCEPT !.daily_cache = SelectSeq(s.daily_cache, Current)]

\* the month rollover (lines 645-646)
MonthlyRollover(s, old_time, new_time) ==
    IF Month(old_time.date) # Month(new_time.date)
    THEN ArchiveAll(s, old_time, new_time)
    ELSE s

\* a faulty collect_readings, which runs the month rollover before the day rollover
CollectReadingsArchivesFirst(s, unit, value, inc) ==
    LET old_time == s.current_time
        collected == Collect(s, unit, value, inc)
        new_time == collected.current_time
        saved == SaveCacheStep(collected)
        archived == MonthlyRollover(saved, old_time, new_time)
        rolled == DailyRollover(archived, old_time, new_time)
    IN  SaveCacheStep(rolled)

\* collect_readings as a whole
CollectReadings(s, unit, value, inc) ==
    LET old_time == s.current_time
        collected == Collect(s, unit, value, inc)
        new_time == collected.current_time
        saved == SaveCacheStep(collected)
        rolled == DailyRollover(saved, old_time, new_time)
        resaved == SaveCacheStep(rolled)
    IN  MonthlyRollover(resaved, old_time, new_time)

----------------------------------------------------------------------------
(* The operations *)

NoTime == [date |-> 0, min |-> 0]

NoReq ==
    [old_time |-> NoTime, new_time |-> NoTime, readings_count |-> 0,
     sample_readings |-> <<>>, calls |-> <<>>]

\* what an operation returned, with the clock before and the archiver calls made
Result(op, ok, old_time, s) ==
    [op |-> op, ok |-> ok, readings_count |-> s.readings_count,
     sample_readings |-> s.sample_readings, old_time |-> old_time,
     new_time |-> s.current_time, n_accounts |-> Len(s.accounts), calls |-> s.calls]

\* a jump of a year or more
IsLongJump(old_time, new_time) == new_time.date >= old_time.date + 10000

\* the advances the model makes: within the bounds
WithinBounds(unit, value) ==
    LET new_time == CalculateNextTime(current_time, unit, value)
    IN  /\ advances < MaxAdvances
        /\ Len(accounts) * Len(DaySegments(current_time, new_time)) <= MaxMeterDays
        /\ IsLongJump(current_time, new_time) => advances <= MaxAdvancesBeforeLongJump

\* the requests an advance may carry
AdvanceInputs ==
    { <<"minutes", 105>>, <<"days", 1>>, <<"days", 2>>, <<"months", 1>>, <<"months", 12>> }

\* a unit that is not recognised
BadUnits == {"weeks"}

Init ==
    /\ accounts = <<>>
    /\ current_time = InitialTime
    /\ latest_readings = <<>>
    /\ daily_cache = <<>>
    /\ cache_file = NoFile
    /\ folders = {}
    /\ daily_files = <<>>
    /\ detail_files = <<>>
    /\ year_dirs = {}
    /\ summary_files = <<>>
    /\ result = [op |-> "init", ok |-> TRUE, readings_count |-> 0, sample_readings |-> <<>>,
                 old_time |-> InitialTime, new_time |-> InitialTime, n_accounts |-> 0,
                 calls |-> <<>>]
    /\ pc = "idle"
    /\ req = NoReq
    /\ advances = 0

\* a faulty register_meter, which does not append the initial reading
RegisterMeterNoReading(m) ==
    /\ pc = "idle"
    /\ IF AlreadyExists(accounts, m)
       THEN /\ result' = Result("register", FALSE, current_time, Sys)
            /\ UNCHANGED <<accounts, latest_readings>>
       ELSE /\ accounts' = Append(accounts, m)
            /\ latest_readings' = Put(latest_readings, m, 0)
            /\ result' = Result("register", TRUE, current_time,
                                [Sys EXCEPT !.accounts = Append(accounts, m)])
    /\ UNCHANGED <<current_time, daily_cache, cache_file, folders, daily_files, detail_files,
                   year_dirs, summary_files, pc, req, advances>>

\* register_meter(meter_id, area, dwelling)
RegisterMeter(m) ==
    /\ pc = "idle"
    /\ IF AlreadyExists(accounts, m)
       THEN /\ result' = Result("register", FALSE, current_time, Sys)
            /\ UNCHANGED <<accounts, latest_readings, daily_cache>>
       ELSE /\ accounts' = Append(accounts, m)
            /\ latest_readings' = Put(latest_readings, m, 0)
            /\ daily_cache' = Append(daily_cache, MeterReading(m, current_time, 0))
            /\ result' = Result("register", TRUE, current_time,
                                [Sys EXCEPT !.accounts = Append(accounts, m)])
    /\ UNCHANGED <<current_time, cache_file, folders, daily_files, detail_files,
                   year_dirs, summary_files, pc, req, advances>>

\* collect_readings(increment_unit, increment_value), run to completion
AdvanceTime(unit, value, inc) ==
    /\ pc = "idle"
    /\ WithinBounds(unit, value)
    /\ LET done == CollectReadings(Sys, unit, value, inc)
       IN  /\ SetSys(done)
           /\ result' = Result("advance", TRUE, current_time, done)
    /\ advances' = advances + 1
    /\ UNCHANGED <<pc, req>>

\* a faulty collect_readings, which saves the cache before reading_generator.collect
\* raises for the unit
AdvanceInvalidSavesCache(unit) ==
    /\ pc = "idle"
    /\ unit \notin Units
    /\ cache_file' = SaveCache(cache_file, daily_cache)
    /\ result' = Result("advance", FALSE, current_time, Sys)
    /\ UNCHANGED <<accounts, current_time, latest_readings, daily_cache,
                   folders, daily_files, detail_files, year_dirs, summary_files,
                   pc, req, advances>>

\* collect_readings with a unit that is not recognised: _calculate_next_time raises
\* ValueError before anything is generated or written
AdvanceInvalid(unit) ==
    /\ pc = "idle"
    /\ unit \notin Units
    /\ result' = Result("advance", FALSE, current_time, Sys)
    /\ UNCHANGED <<accounts, current_time, latest_readings, daily_cache, cache_file,
                   folders, daily_files, detail_files, year_dirs, summary_files,
                   pc, req, advances>>

\* a faulty reset_system, which does not call clear_cache: daily_cache.json stays
ResetSystemKeepsCacheFile ==
    /\ pc = "idle"
    /\ accounts' = <<>>
    /\ current_time' = InitialTime
    /\ latest_readings' = <<>>
    /\ daily_cache' = <<>>
    /\ folders' = {}
    /\ daily_files' = <<>>
    /\ detail_files' = <<>>
    /\ year_dirs' = {}
    /\ summary_files' = <<>>
    /\ result' = [op |-> "reset", ok |-> TRUE, readings_count |-> 0, sample_readings |-> <<>>,
                  old_time |-> current_time, new_time |-> InitialTime, n_accounts |-> 0,
                  calls |-> <<>>]
    /\ advances' = 0
    /\ UNCHANGED <<cache_file, pc, req>>

\* reset_system
ResetSystem ==
    /\ pc = "idle"
    /\ accounts' = <<>>
    /\ current_time' = InitialTime
    /\ latest_readings' = <<>>
    /\ daily_cache' = <<>>
    /\ cache_file' = NoFile
    /\ folders' = {}
    /\ daily_files' = <<>>
    /\ detail_files' = <<>>
    /\ year_dirs' = {}
    /\ summary_files' = <<>>
    /\ result' = [op |-> "reset", ok |-> TRUE, readings_count |-> 0, sample_readings |-> <<>>,
                  old_time |-> current_time, new_time |-> InitialTime, n_accounts |-> 0,
                  calls |-> <<>>]
    /\ advances' = 0
    /\ UNCHANGED <<pc, req>>

\* the process is restarted: SmartMeterSystem.__init__ rebuilds the memory of the
\* generator from daily_cache.json
Restart ==
    /\ pc = "idle"
    /\ latest_readings' = InitializeLatestReadings(cache_file)
    /\ daily_cache' = LoadCache(cache_file)
    /\ result' = Result("restart", TRUE, current_time, Sys)
    /\ UNCHANGED <<accounts, current_time, cache_file, folders, daily_files, detail_files,
                   year_dirs, summary_files, pc, req, advances>>

----------------------------------------------------------------------------
(* collect_readings step by step, with a step that fails *)

\* the state the step in progress works on
SysInFlight ==
    [Sys EXCEPT !.readings_count = req.readings_count,
                !.sample_readings = req.sample_readings,
                !.calls = req.calls]

InFlight(old_time, s) ==
    [old_time |-> old_time, new_time |-> s.current_time, readings_count |-> s.readings_count,
     sample_readings |-> s.sample_readings, calls |-> s.calls]

\* lines 612-616: the clock is read, reading_generator.collect runs
BeginAdvance(unit, value, inc) ==
    /\ pc = "idle"
    /\ WithinBounds(unit, value)
    /\ ~IsLongJump(current_time, CalculateNextTime(current_time, unit, value))
    /\ LET collected == Collect(Sys, unit, value, inc)
       IN  /\ SetSys(collected)
           /\ req' = InFlight(current_time, collected)
    /\ pc' = "collected"
    /\ advances' = advances + 1
    /\ UNCHANGED result

\* line 618
StepSaveCache ==
    /\ pc = "collected"
    /\ SetSys(SaveCacheStep(SysInFlight))
    /\ pc' = "saved"
    /\ UNCHANGED <<result, req, advances>>

\* lines 621-640
StepDailyRollover ==
    /\ pc = "saved"
    /\ LET rolled == DailyRollover(SysInFlight, req.old_time, req.new_time)
       IN  /\ SetSys(rolled)
           /\ req' = InFlight(req.old_time, rolled)
    /\ pc' = "rolled"
    /\ UNCHANGED <<result, advances>>

\* line 642
StepResaveCache ==
    /\ pc = "rolled"
    /\ SetSys(SaveCacheStep(SysInFlight))
    /\ pc' = "resaved"
    /\ UNCHANGED <<result, req, advances>>

\* lines 645-648: the month rollover, and the result is returned
StepMonthlyRollover ==
    /\ pc = "resaved"
    /\ LET done == MonthlyRollover(SysInFlight, req.old_time, req.new_time)
       IN  /\ SetSys(done)
           /\ result' = Result("advance", TRUE, req.old_time, done)
    /\ pc' = "idle"
    /\ req' = NoReq
    /\ UNCHANGED advances

\* the step about to run raises (an IOFailure of a file operation): the exception
\* leaves collect_readings and the request is answered with an error
StepFails ==
    /\ pc # "idle"
    /\ result' = Result("advance", FALSE, req.old_time, SysInFlight)
    /\ pc' = "idle"
    /\ req' = NoReq
    /\ UNCHANGED <<accounts, current_time, latest_readings, daily_cache, cache_file,
                   folders, daily_files, detail_files, year_dirs, summary_files, advances>>

NextSteps ==
    \/ \E i \in 1..Len(MeterIds) : i <= Len(accounts) + 1 /\ RegisterMeter(MeterIds[i])
    \/ \E a \in AdvanceInputs, inc \in Increments : BeginAdvance(a[1], a[2], inc)
    \/ StepSaveCache
    \/ StepDailyRollover
    \/ StepResaveCache
    \/ StepMonthlyRollover
    \/ StepFails

SpecSteps == Init /\ [][NextSteps]_vars

----------------------------------------------------------------------------
(* collect_readings file operation by file operation, with a process that can be
   killed between two of them and started again *)

\* the requests an advance may carry
CrashInputs == { <<"days", 1>>, <<"days", 2>> }

\* the dates the clock starts at: the start date, and the end of its month, which
\* the clock reaches by advances made before a meter is registered
CrashDates == { EpochDate, 20240530 }

InitCrash ==
    /\ accounts = <<>>
    /\ current_time \in { [date |-> d, min |-> 0] : d \in CrashDates }
    /\ latest_readings = <<>>
    /\ daily_cache = <<>>
    /\ cache_file = NoFile
    /\ folders = {}
    /\ daily_files = <<>>
    /\ detail_files = <<>>
    /\ year_dirs = {}
    /\ summary_files = <<>>
    /\ result = [op |-> "init", ok |-> TRUE, readings_count |-> 0, sample_readings |-> <<>>,
                 old_time |-> current_time, new_time |-> current_time, n_accounts |-> 0,
                 calls |-> <<>>]
    /\ pc = "idle"
    /\ req = NoReq
    /\ advances = 0

\* the locals of the rollovers in flight: the completed dates still to commit, the
\* monthly_data loaded by the commit in progress, the month archive_all is at
WithLocals(r, todo, monthly_data, current) ==
    [old_time |-> r.old_time, new_time |-> r.new_time, readings_count |-> r.readings_count,
     sample_readings |-> r.sample_readings, calls |-> r.calls,
     todo |-> todo, monthly_data |-> monthly_data, current |-> current]

\* lines 621-630: the completed dates of the cache, in the order of the cache
StartDailyRollover ==
    /\ pc = "saved"
    /\ LET Completed(r) == r.date < req.new_time.date
           completed == SelectSeq(daily_cache, Completed)
           dates0 == <<>> \o [i \in 1..Len(completed) |-> completed[i].date]
           dates == IF req.old_time.date = req.new_time.date THEN <<>>
                    ELSE FirstSeen(dates0, 1, Len(dates0))
       IN  req' = WithLocals(req, dates, <<>>, 0)
    /\ pc' = "commit"
    /\ UNCHANGED <<accounts, current_time, latest_readings, daily_cache, cache_file, folders,
                   daily_files, detail_files, year_dirs, summary_files, result, advances>>

\* process, lines 256-296: the detail and the daily file of the day before are
\* read, the payloads are appended in memory, and the daily file is removed
ProcessRemoveYesterday ==
    /\ pc = "commit"
    /\ req.todo # <<>>
    /\ LET yesterday == PrevDay(Head(req.todo))
           ym == YM(yesterday)
           monthly_data == IF ym \in DOMAIN detail_files /\ Parsable(detail_files[ym])
                           THEN detail_files[ym] ELSE <<>>
           has_yesterday == yesterday \in DOMAIN daily_files /\ Parsable(daily_files[yesterday])
       IN  /\ folders' = GetMonthDirectory(folders, ym)
           /\ daily_files' = IF has_yesterday THEN Drop(daily_files, {yesterday}) ELSE daily_files
           /\ req' = WithLocals(req, req.todo,
                                IF has_yesterday THEN FoldDay(monthly_data, daily_files[yesterday])
                                ELSE monthly_data, 0)
    /\ pc' = "commit_monthly"
    /\ UNCHANGED <<accounts, current_time, latest_readings, daily_cache, cache_file,
                   detail_files, year_dirs, summary_files, result, advances>>

\* process, lines 300-302: monthly_data is written to the detail file
ProcessWriteMonthly ==
    /\ pc = "commit_monthly"
    /\ detail_files' = Put(detail_files, YM(PrevDay(Head(req.todo))), req.monthly_data)
    /\ pc' = "commit_daily"
    /\ UNCHANGED <<accounts, current_time, latest_readings, daily_cache, cache_file, folders,
                   daily_files, year_dirs, summary_files, result, req, advances>>

\* process, lines 304-307: the daily file of the date is written
ProcessWriteDaily ==
    /\ pc = "commit_daily"
    /\ LET process_date == Head(req.todo)
       IN  /\ folders' = GetMonthDirectory(folders, YM(process_date))
           /\ daily_files' = Put(daily_files, process_date,
                                 DailyData(ReadingsOn(daily_cache, process_date), process_date))
           /\ req' = [WithLocals(req, Tail(req.todo), <<>>, 0) EXCEPT
                         !.calls = Append(@, [op |-> "process", arg |-> process_date])]
    /\ pc' = "commit"
    /\ UNCHANGED <<accounts, current_time, latest_readings, daily_cache, cache_file,
                   detail_files, year_dirs, summary_files, result, advances>>

\* lines 636-640: the cache keeps the readings of the date of new_time
FinishDailyRollover ==
    /\ pc = "commit"
    /\ req.todo = <<>>
    /\ LET Current(r) == r.date = req.new_time.date
       IN  daily_cache' = IF req.old_time.date = req.new_time.date THEN daily_cache
                          ELSE SelectSeq(daily_cache, Current)
    /\ pc' = "rolled"
    /\ UNCHANGED <<accounts, current_time, latest_readings, cache_file, folders, daily_files,
                   detail_files, year_dirs, summary_files, result, req, advances>>

\* lines 645-646 and 511-518: the months archive_all goes through
StartMonthlyRollover ==
    /\ pc = "resaved"
    /\ LET start == YM(req.old_time.date)
           end == YM(req.new_time.date)
       IN  req' = IF Month(req.old_time.date) # Month(req.new_time.date)
                  THEN [WithLocals(req, <<>>, <<>>, NextYM(start)) EXCEPT
                           !.calls = Append(@, [op |-> "archive_all", arg |-> start])]
                  ELSE WithLocals(req, <<>>, <<>>, NextYM(end))
    /\ pc' = "archive"
    /\ UNCHANGED <<accounts, current_time, latest_readings, daily_cache, cache_file, folders,
                   daily_files, detail_files, year_dirs, summary_files, result, advances>>

\* archive, lines 345-393: nothing for a month before the start date; else the
\* folder is made and, when the daily file of the last day exists, the detail is
\* written with its payloads
ArchiveWriteDetail ==
    /\ pc = "archive"
    /\ req.current <= YM(req.new_time.date)
    /\ LET last_month == PrevYM(req.current)
           last_day == LastDayOf(last_month)
           detail == IF last_month \in DOMAIN detail_files /\ Parsable(detail_files[last_month])
                     THEN detail_files[last_month] ELSE <<>>
           called == [req EXCEPT !.calls = Append(@, [op |-> "archive", arg |-> req.current])]
       IN  IF last_month * 100 + 1 < EpochDate
           THEN /\ req' = [called EXCEPT !.current = NextYM(@)]
                /\ pc' = "archive"
                /\ UNCHANGED <<folders, detail_files>>
           ELSE /\ folders' = GetMonthDirectory(folders, last_month)
                /\ req' = called
                /\ IF last_day \in DOMAIN daily_files
                   THEN /\ detail_files' =
                              Put(detail_files, last_month,
                                  IF Parsable(daily_files[last_day])
                                  THEN FoldDay(detail, daily_files[last_day]) ELSE detail)
                        /\ pc' = "archive_remove"
                   ELSE /\ UNCHANGED detail_files
                        /\ pc' = "archive_summary"
    /\ UNCHANGED <<accounts, current_time, latest_readings, daily_cache, cache_file,
                   daily_files, year_dirs, summary_files, result, advances>>

\* archive, line 395: the daily file of the last day is removed
ArchiveRemoveYesterday ==
    /\ pc = "archive_remove"
    /\ daily_files' = Drop(daily_files, {LastDayOf(PrevYM(req.current))})
    /\ pc' = "archive_summary"
    /\ UNCHANGED <<accounts, current_time, latest_readings, daily_cache, cache_file, folders,
                   detail_files, year_dirs, summary_files, result, req, advances>>

\* archive, lines 398-467: the year directory, the summary and the cleanup
ArchiveWriteSummary ==
    /\ pc = "archive_summary"
    /\ LET last_month == PrevYM(req.current)
           in_year == [SysInFlight EXCEPT !.year_dirs = {y : y \in @ \cup {YMYear(last_month)}}]
       IN  SetSys(CleanupOldReadings(WriteSummary(in_year, last_month), req.current))
    /\ req' = [req EXCEPT !.current = NextYM(@)]
    /\ pc' = "archive"
    /\ UNCHANGED <<result, advances>>

\* line 648: the result is returned
FinishAdvance ==
    /\ pc = "archive"
    /\ req.current > YM(req.new_time.date)
    /\ result' = Result("advance", TRUE, req.old_time, SysInFlight)
    /\ pc' = "idle"
    /\ req' = NoReq
    /\ UNCHANGED <<accounts, current_time, latest_readings, daily_cache, cache_file, folders,
                   daily_files, detail_files, year_dirs, summary_files, advances>>

\* the process is killed during an advance and started again: the files are as the
\* last file operation left them, the memory is rebuilt by SmartMeterSystem.__init__
Crash ==
    /\ pc # "idle"
    /\ latest_readings' = InitializeLatestReadings(cache_file)
    /\ daily_cache' = LoadCache(cache_file)
    /\ result' = Result("crash", FALSE, req.old_time, SysInFlight)
    /\ pc' = "idle"
    /\ req' = NoReq
    /\ UNCHANGED <<accounts, current_time, cache_file, folders, daily_files, detail_files,
                   year_dirs, summary_files, advances>>

NextCrash ==
    \/ \E i \in 1..Len(MeterIds) : i <= Len(accounts) + 1 /\ RegisterMeter(MeterIds[i])
    \/ \E a \in CrashInputs, inc \in Increments : BeginAdvance(a[1], a[2], inc)
    \/ StepSaveCache
    \/ StartDailyRollover
    \/ ProcessRemoveYesterday
    \/ ProcessWriteMonthly
    \/ ProcessWriteDaily
    \/ FinishDailyRollover
    \/ StepResaveCache
    \/ StartMonthlyRollover
    \/ ArchiveWriteDetail
    \/ ArchiveRemoveYesterday
    \/ ArchiveWriteSummary
    \/ FinishAdvance
    \/ Crash

SpecCrash == InitCrash /\ [][NextCrash]_vars

----------------------------------------------------------------------------
(* Two advance requests served at the same time by the one SmartMeterSystem of the
   process: pc and req hold the position and the locals of each request, and a step
   of one request may run between two steps of the other *)

Requests == {1, 2}

\* the requests an advance may carry
RaceInputs == { <<"minutes", 105>>, <<"days", 1>>, <<"days", 2>> }

\* the locals of a request: its parameters, old_time of collect_readings,
\* current_time and next_time of collect, and what it returns
NoLocals ==
    [unit |-> "", value |-> 0, inc |-> 0, old_time |-> NoTime, current_time |-> NoTime,
     next_time |-> NoTime, readings_count |-> 0, sample_readings |-> <<>>, calls |-> <<>>]

InitRace ==
    /\ accounts = <<>>
    /\ current_time = InitialTime
    /\ latest_readings = <<>>
    /\ daily_cache = <<>>
    /\ cache_file = NoFile
    /\ folders = {}
    /\ daily_files = <<>>
    /\ detail_files = <<>>
    /\ year_dirs = {}
    /\ summary_files = <<>>
    /\ result = [op |-> "init", ok |-> TRUE, readings_count |-> 0, sample_readings |-> <<>>,
                 old_time |-> InitialTime, new_time |-> InitialTime, n_accounts |-> 0,
                 calls |-> <<>>]
    /\ pc = [r \in Requests |-> "idle"]
    /\ req = [r \in Requests |-> NoLocals]
    /\ advances = 0

\* the system as request r sees it: the shared state with the locals of r
SysOf(r) ==
    [Sys EXCEPT !.readings_count = req[r].readings_count,
                !.sample_readings = req[r].sample_readings,
                !.calls = req[r].calls]

\* register_meter, while no advance has been asked for
RegisterMeterFirst(m) ==
    /\ advances = 0
    /\ ~AlreadyExists(accounts, m)
    /\ accounts' = Append(accounts, m)
    /\ latest_readings' = Put(latest_readings, m, 0)
    /\ daily_cache' = Append(daily_cache, MeterReading(m, current_time, 0))
    /\ result' = Result("register", TRUE, current_time,
                        [Sys EXCEPT !.accounts = Append(accounts, m)])
    /\ UNCHANGED <<current_time, cache_file, folders, daily_files, detail_files,
                   year_dirs, summary_files, pc, req, advances>>

\* line 612: collect_readings reads the clock into old_time
ReadOldTime(r, unit, value, inc) ==
    /\ pc[r] = "idle"
    /\ advances < MaxAdvances
    /\ req' = [req EXCEPT ![r] = [NoLocals EXCEPT !.unit = unit, !.value = value,
                                                   !.inc = inc, !.old_time = current_time]]
    /\ pc' = [pc EXCEPT ![r] = "started"]
    /\ advances' = advances + 1
    /\ UNCHANGED <<accounts, current_time, latest_readings, daily_cache, cache_file, folders,
                   daily_files, detail_files, year_dirs, summary_files, result>>

\* lines 233-234: collect reads the clock and computes next_time from what it read
GetCurrentTime(r) ==
    /\ pc[r] = "started"
    /\ req' = [req EXCEPT ![r].current_time = current_time,
                          ![r].next_time = CalculateNextTime(current_time, req[r].unit,
                                                             req[r].value)]
    /\ pc' = [pc EXCEPT ![r] = "read"]
    /\ UNCHANGED <<accounts, current_time, latest_readings, daily_cache, cache_file, folders,
                   daily_files, detail_files, year_dirs, summary_files, result, advances>>

\* line 235: the readings from current_time to next_time are generated into the
\* latest_readings and the daily_cache the requests share
GenerateReadingsStep(r) ==
    /\ pc[r] = "read"
    /\ LET gen == GenerateReadings(accounts, latest_readings, req[r].current_time,
                                   req[r].next_time, req[r].inc)
           n == Len(gen.readings)
       IN  /\ latest_readings' = gen.latest
           /\ daily_cache' = daily_cache \o gen.readings
           /\ req' = [req EXCEPT ![r].readings_count = n,
                                 ![r].sample_readings =
                                     SubSeq(gen.readings, 1, IF n < 3 THEN n ELSE 3)]
    /\ pc' = [pc EXCEPT ![r] = "generated"]
    /\ UNCHANGED <<accounts, current_time, cache_file, folders, daily_files, detail_files,
                   year_dirs, summary_files, result, advances>>

\* a faulty save of the clock, which adds the increment to the clock the file holds
\* when it is written
SaveCurrentTimeAdds(r) ==
    /\ pc[r] = "generated"
    /\ current_time' = CalculateNextTime(current_time, req[r].unit, req[r].value)
    /\ pc' = [pc EXCEPT ![r] = "collected"]
    /\ UNCHANGED <<accounts, latest_readings, daily_cache, cache_file, folders, daily_files,
                   detail_files, year_dirs, summary_files, result, req, advances>>

\* line 236: next_time is written to the clock file
SaveCurrentTime(r) ==
    /\ pc[r] = "generated"
    /\ current_time' = req[r].next_time
    /\ pc' = [pc EXCEPT ![r] = "collected"]
    /\ UNCHANGED <<accounts, latest_readings, daily_cache, cache_file, folders, daily_files,
                   detail_files, year_dirs, summary_files, result, req, advances>>

\* line 618: the shared cache is written to the cache file
SaveCacheFirst(r) ==
    /\ pc[r] = "collected"
    /\ cache_file' = SaveCache(cache_file, daily_cache)
    /\ pc' = [pc EXCEPT ![r] = "saved"]
    /\ UNCHANGED <<accounts, current_time, latest_readings, daily_cache, folders, daily_files,
                   detail_files, year_dirs, summary_files, result, req, advances>>

\* lines 621-640: the day rollover, between the old_time and the new_time of r
DailyRolloverOf(r) ==
    /\ pc[r] = "saved"
    /\ LET rolled == DailyRollover(SysOf(r), req[r].old_time, req[r].next_time)
       IN  /\ SetSys(rolled)
           /\ req' = [req EXCEPT ![r].calls = rolled.calls]
    /\ pc' = [pc EXCEPT ![r] = "rolled"]
    /\ UNCHANGED <<result, advances>>

\* line 642: the shared cache is written to the cache file again
SaveCacheSecond(r) ==
    /\ pc[r] = "rolled"
    /\ cache_file' = SaveCache(cache_file, daily_cache)
    /\ pc' = [pc EXCEPT ![r] = "resaved"]
    /\ UNCHANGED <<accounts, current_time, latest_readings, daily_cache, folders, daily_files,
                   detail_files, year_dirs, summary_files, result, req, advances>>

\* lines 645-648: the month rollover, and the result of r is returned
MonthlyRolloverOf(r) ==
    /\ pc[r] = "resaved"
    /\ LET done == MonthlyRollover(SysOf(r), req[r].old_time, req[r].next_time)
       IN  /\ SetSys(done)
           /\ req' = [req EXCEPT ![r].calls = done.calls]
           /\ result' = Result("advance", TRUE, req[r].old_time,
                               [done EXCEPT !.current_time = req[r].next_time])
    /\ pc' = [pc EXCEPT ![r] = "done"]
    /\ UNCHANGED advances

NextRace ==
    \/ \E i \in 1..Len(MeterIds) : i <= Len(accounts) + 1 /\ RegisterMeterFirst(MeterIds[i])
    \/ \E r \in Requests, a \in RaceInputs, inc \in Increments : ReadOldTime(r, a[1], a[2], inc)
    \/ \E r \in Requests : GetCurrentTime(r)
    \/ \E r \in Requests : GenerateReadingsStep(r)
    \/ \E r \in Requests : SaveCurrentTime(r)
    \/ \E r \in Requests : SaveCacheFirst(r)
    \/ \E r \in Requests : DailyRolloverOf(r)
    \/ \E r \in Requests : SaveCacheSecond(r)
    \/ \E r \in Requests : MonthlyRolloverOf(r)

SpecRace == InitRace /\ [][NextRace]_vars

----------------------------------------------------------------------------
(* The specifications *)

Next ==
    \/ \E i \in 1..Len(MeterIds) : i <= Len(accounts) + 1 /\ RegisterMeter(MeterIds[i])
    \/ \E a \in AdvanceInputs, inc \in Increments : AdvanceTime(a[1], a[2], inc)
    \/ \E u \in BadUnits : AdvanceInvalid(u)
    \/ ResetSystem

Spec == Init /\ [][Next]_vars

\* the same operations, with restarts of the process between them
NextRestart == Next \/ Restart

SpecRestart == Init /\ [][NextRestart]_vars

----------------------------------------------------------------------------
(* _calculate_next_time with unit "months", on clocks of every day of two years *)

\* the years of the clocks, one of them a leap year
StartYears == {2023, 2024}

\* the times of day of the clocks
StartMinutes == {0, 105}

\* the numbers of months added
MonthSteps == {1, 2, 11, 12, 13}

InitMonths ==
    /\ accounts = <<>>
    /\ current_time \in
          { [date |-> MkDate(y, m, d), min |-> mn] :
              y \in StartYears, m \in 1..12, d \in 1..31, mn \in StartMinutes }
    /\ Day(current_time.date) <= DaysInMonth(Year(current_time.date), Month(current_time.date))
    /\ latest_readings = <<>>
    /\ daily_cache = <<>>
    /\ cache_file = NoFile
    /\ folders = {}
    /\ daily_files = <<>>
    /\ detail_files = <<>>
    /\ year_dirs = {}
    /\ summary_files = <<>>
    /\ result = [op |-> "init", ok |-> TRUE, readings_count |-> 0, sample_readings |-> <<>>,
                 old_time |-> current_time, new_time |-> current_time, n_accounts |-> 0,
                 calls |-> <<>>]
    /\ pc = "idle"
    /\ req = NoReq
    /\ advances = 0

\* next_time = _calculate_next_time(current_time, "months", value) (line 234)
AddMonths(value) ==
    /\ advances < MaxAdvances
    /\ current_time' = CalculateNextTime(current_time, "months", value)
    /\ result' = [op |-> "months", ok |-> TRUE, value |-> value,
                  old_time |-> current_time,
                  new_time |-> CalculateNextTime(current_time, "months", value)]
    /\ advances' = advances + 1
    /\ UNCHANGED <<accounts, latest_readings, daily_cache, cache_file, folders, daily_files,
                   detail_files, year_dirs, summary_files, pc, req>>

NextMonths == \E value \in MonthSteps : AddMonths(value)

SpecMonths == InitMonths /\ [][NextMonths]_vars

----------------------------------------------------------------------------
(* Registrations and short advances from clocks at several times of the first day:
   the states an empty system is in after advances by minutes *)

\* the times of day of the clock at the start
ClockMinutes == {0, 15, 30, 60, 75, 105, 1395, 1410}

\* the requests an advance may carry
ClockInputs == { <<"minutes", 15>>, <<"minutes", 45>>, <<"hours", 1>>, <<"hours", 2>>,
                 <<"days", 1>> }

InitClock ==
    /\ accounts = <<>>
    /\ current_time \in { [date |-> EpochDate, min |-> mn] : mn \in ClockMinutes }
    /\ latest_readings = <<>>
    /\ daily_cache = <<>>
    /\ cache_file = NoFile
    /\ folders = {}
    /\ daily_files = <<>>
    /\ detail_files = <<>>
    /\ year_dirs = {}
    /\ summary_files = <<>>
    /\ result = [op |-> "init", ok |-> TRUE, readings_count |-> 0, sample_readings |-> <<>>,
                 old_time |-> current_time, new_time |-> current_time, n_accounts |-> 0,
                 calls |-> <<>>]
    /\ pc = "idle"
    /\ req = NoReq
    /\ advances = 0

NextClock ==
    \/ \E i \in 1..Len(MeterIds) : i <= Len(accounts) + 1 /\ RegisterMeter(MeterIds[i])
    \/ \E a \in ClockInputs, inc \in Increments : AdvanceTime(a[1], a[2], inc)

SpecClock == InitClock /\ [][NextClock]_vars

----------------------------------------------------------------------------
(* The operations on an archive in which files are left unparsable by a write that
   was cut short *)

\* the requests an advance may carry
FaultInputs == { <<"minutes", 105>>, <<"days", 1>>, <<"days", 2>> }

\* a daily file is found truncated: json.load raises JSONDecodeError on it
CorruptDailyFile(d) ==
    /\ pc = "idle"
    /\ d \in DOMAIN daily_files
    /\ Parsable(daily_files[d])
    /\ daily_files' = Put(daily_files, d, Unparsable)
    /\ UNCHANGED <<accounts, current_time, latest_readings, daily_cache, cache_file, folders,
                   detail_files, year_dirs, summary_files, result, pc, req, advances>>

\* a monthly detail file is found truncated
CorruptDetailFile(ym) ==
    /\ pc = "idle"
    /\ ym \in DOMAIN detail_files
    /\ Parsable(detail_files[ym])
    /\ detail_files' = Put(detail_files, ym, Unparsable)
    /\ UNCHANGED <<accounts, current_time, latest_readings, daily_cache, cache_file, folders,
                   daily_files, year_dirs, summary_files, result, pc, req, advances>>

NextFaults ==
    \/ \E i \in 1..Len(MeterIds) : i <= Len(accounts) + 1 /\ RegisterMeter(MeterIds[i])
    \/ \E a \in FaultInputs, inc \in Increments : AdvanceTime(a[1], a[2], inc)
    \/ \E d \in DOMAIN daily_files : CorruptDailyFile(d)
    \/ \E ym \in DOMAIN detail_files : CorruptDetailFile(ym)

SpecFaults == Init /\ [][NextFaults]_vars

----------------------------------------------------------------------------
(* Registrations and short advances from several times of day, with restarts of
   the process *)

NextClockRestart == NextClock \/ Restart

SpecClockRestart == InitClock /\ [][NextClockRestart]_vars

----------------------------------------------------------------------------
(* Properties *)

MeterSet == Range(MeterIds)

\* a sequence of the elements of a set of numbers, ascending
RECURSIVE Ascending(_)
Ascending(S) ==
    IF S = {} THEN <<>>
    ELSE LET least == CHOOSE x \in S : \A y \in S : x <= y
         IN  <<least>> \o Ascending(S \ {least})

\* the readings of meter m in the pending cache, as the day payloads the archive
\* would hold: one per date of the cache
CachePayloads(m) ==
    LET Mine(r) == r.meter_id = m
        mine == SelectSeq(daily_cache, Mine)
        dates == Ascending({mine[i].date : i \in 1..Len(mine)})
        Of(d) == LET On(r) == r.date = d
                     on == SelectSeq(mine, On)
                 IN  [date |-> d,
                      readings |-> <<>> \o [i \in 1..Len(on) |->
                          [time |-> HHMM(on[i].min), value |-> on[i].meter_value]]]
    IN  <<>> \o [i \in 1..Len(dates) |-> Of(dates[i])]

\* the day payloads of meter m in the daily files
DailyPayloads(m) ==
    LET dates == Ascending({d \in DOMAIN daily_files : m \in DOMAIN daily_files[d]})
    IN  <<>> \o [i \in 1..Len(dates) |-> daily_files[dates[i]][m]]

\* the day payloads of meter m in the detail files of months[i..]
RECURSIVE DetailPayloads(_, _, _)
DetailPayloads(m, months, i) ==
    IF i > Len(months) THEN <<>>
    ELSE detail_files[months[i]][m] \o DetailPayloads(m, months, i + 1)

\* every day payload of meter m: monthly details, daily files, pending cache
PayloadsOf(m) ==
    DetailPayloads(m, Ascending({ym \in DOMAIN detail_files : m \in DOMAIN detail_files[ym]}), 1)
    \o DailyPayloads(m) \o CachePayloads(m)

\* [date, least value, greatest value] of a payload with readings
Extent(p) ==
    LET values == {p.readings[i].value : i \in 1..Len(p.readings)}
    IN  [date |-> p.date,
         least |-> CHOOSE v \in values : \A w \in values : v <= w,
         greatest |-> CHOOSE v \in values : \A w \in values : w <= v]

\* of two payloads of one date, no reading has a later time and a lower value
SameDayOrdered(p, q) ==
    \A i \in 1..Len(p.readings), j \in 1..Len(q.readings) :
        p.readings[i].time < q.readings[j].time => p.readings[i].value <= q.readings[j].value

\* the readings of meter m, ordered by timestamp, have non-decreasing value
NonDecreasing(m) ==
    LET NonEmpty(p) == p.readings # <<>>
        ps == SelectSeq(PayloadsOf(m), NonEmpty)
        ext == <<>> \o [i \in 1..Len(ps) |-> Extent(ps[i])]
    IN  \A i, j \in 1..Len(ps) :
           /\ ext[i].date < ext[j].date => ext[i].greatest <= ext[j].least
           /\ ext[i].date = ext[j].date => SameDayOrdered(ps[i], ps[j])

\* C1: after any sequence of registrations and advances, the readings of every
\* meter in the pending cache, the daily files and the monthly details, ordered by
\* timestamp, have non-decreasing value
C1_NonDecreasingValues == \A m \in MeterSet : NonDecreasing(m)

\* the number of midnights between the two times of an advance
DaysBetween(old_time, new_time) == Len(DatesFromTo(old_time.date, new_time.date)) - 1

\* C2: an advance from midnight to midnight over D full days with N registered
\* meters generates D * 46 * N readings
C2_FortySixPerDay ==
    (result.op = "advance" /\ result.ok /\ result.old_time.min = 0 /\ result.new_time.min = 0)
        => result.readings_count
             = DaysBetween(result.old_time, result.new_time) * 46 * result.n_accounts

\* C3: after an advance whose two times lie in different calendar months, every
\* folder of the daily-detail store is for the month of the new time or the month
\* before it
C3_OnlyTwoMonthsKept ==
    (result.op = "advance" /\ result.ok /\ YM(result.old_time.date) # YM(result.new_time.date))
        => folders \subseteq {YM(result.new_time.date), PrevYM(YM(result.new_time.date))}

\* C4: when a step of an advance fails and aborts it, the persisted clock still
\* is the time the advance started from
C4_ClockUnchangedOnFailure ==
    (result.op = "advance" /\ ~result.ok) => current_time = result.old_time

\* the readings of meter m in a list of readings
ReadingsOfMeter(readings, m) == LET Mine(r) == r.meter_id = m IN SelectSeq(readings, Mine)

\* two lists hold the same readings, each meter's in the same order
SamePerMeter(a, b) ==
    /\ Len(a) = Len(b)
    /\ \A m \in {a[i].meter_id : i \in 1..Len(a)} \cup {b[i].meter_id : i \in 1..Len(b)} :
          ReadingsOfMeter(a, m) = ReadingsOfMeter(b, m)

\* C5: after an advance that crosses a day boundary, daily_cache.json holds exactly
\* the readings of the new date, those of the pending set in memory, also when that
\* set is empty
C5_CacheFileIsPendingSet ==
    (result.op = "advance" /\ result.ok /\ result.old_time.date # result.new_time.date)
        => /\ SamePerMeter(LoadCache(cache_file), daily_cache)
           /\ \A i \in 1..Len(LoadCache(cache_file)) :
                 LoadCache(cache_file)[i].date = result.new_time.date

\* C6: with restarts of the process between advances, no day's payload of a meter
\* is in a monthly detail twice
C6_NoDayTwiceInDetail ==
    \A ym \in DOMAIN detail_files : \A m \in DOMAIN detail_files[ym] :
        \A i, j \in 1..Len(detail_files[ym][m]) :
            i < j => detail_files[ym][m][i].date # detail_files[ym][m][j].date

\* a month whose folder holds readings: in a daily file or in its detail file
MonthHasReadings(ym) ==
    \/ \E d \in DOMAIN daily_files : YM(d) = ym
    \/ /\ ym \in DOMAIN detail_files
       /\ \E m \in DOMAIN detail_files[ym] : detail_files[ym][m] # <<>>

\* C7: an advance deletes the daily-detail folder of a month that had readings only
\* when the summary of that month has been written
C7_PrunedOnlyAfterSummary ==
    [][result'.op = "advance" =>
          \A ym \in folders \ folders' :
              MonthHasReadings(ym) => ym \in DOMAIN summary_files']_vars

\* C8: an advance invokes archive_all if and only if its two times lie in
\* different calendar months
C8_ArchiveIffMonthChanged ==
    (result.op = "advance" /\ result.ok)
        => ((\E i \in 1..Len(result.calls) : result.calls[i].op = "archive_all")
              <=> YM(result.old_time.date) # YM(result.new_time.date))

\* the reference months Archive is run twice with: the month of the clock and the next
ReferenceMonths == {YM(current_time.date), NextYM(YM(current_time.date))}

\* C9: running archive twice with the same reference date leaves the monthly
\* summaries as the first run wrote them, and the second run leaves the monthly
\* details unchanged
C9_ArchiveTwice ==
    \A ym \in ReferenceMonths :
        LET once == Archive(Sys, ym)
            twice == Archive(once, ym)
        IN  /\ twice.summary_files = once.summary_files
            /\ twice.detail_files = once.detail_files

\* a state where archive folds the last day of the month and writes a summary
\* with readings
C9_Witness ==
    \E ym \in ReferenceMonths :
        /\ LastDayOf(PrevYM(ym)) \in DOMAIN daily_files
        /\ PrevYM(ym) \in DOMAIN Archive(Sys, ym).summary_files
        /\ Archive(Sys, ym).summary_files[PrevYM(ym)] # <<>>

\* C10: for a non-empty pending set, save_cache followed by load_cache returns the
\* same readings, each meter's in their original order
C10_CacheRoundTrip ==
    daily_cache # <<>> => SamePerMeter(LoadCache(SaveCache(cache_file, daily_cache)), daily_cache)

\* a pending set of two meters, interleaved: load_cache returns it in another order
C10_Witness ==
    /\ Cardinality({daily_cache[i].meter_id : i \in 1..Len(daily_cache)}) > 1
    /\ LoadCache(SaveCache(cache_file, daily_cache)) # daily_cache
    /\ SamePerMeter(LoadCache(SaveCache(cache_file, daily_cache)), daily_cache)

\* C11: after a successful reset the account list is empty, the clock is
\* 2024-05-01T00:00:00, there is no daily file, no monthly detail and no monthly
\* summary, the pending cache is empty in memory and absent on disk, and the map of
\* last values is empty
C11_ResetClearsAll ==
    (result.op = "reset" /\ result.ok)
        => /\ accounts = <<>>
           /\ current_time = [date |-> 20240501, min |-> 0]
           /\ daily_files = <<>> /\ detail_files = <<>> /\ summary_files = <<>>
           /\ folders = {} /\ year_dirs = {}
           /\ daily_cache = <<>>
           /\ LoadCache(cache_file) = <<>> /\ ~cache_file.exists
           /\ latest_readings = <<>>

\* a reset made after the clock had been advanced by a month or more
C11_Witness ==
    result.op = "reset" /\ result.ok /\ result.old_time.date >= 20240601

\* C12: adding k months to a time gives a date of the month k months later, with
\* the day of the month the lesser of the day before and the number of days of that
\* month, and the same time of day; 2024-01-31 + 1 month is 2024-02-29 and
\* 2023-01-31 + 1 month is 2023-02-28
C12_MonthArithmetic ==
    /\ result.op = "months" =>
          LET t0 == result.old_time
              t1 == result.new_time
              index == Year(t0.date) * 12 + (Month(t0.date) - 1) + result.value
              last == DaysInMonth(index \div 12, (index % 12) + 1)
          IN  /\ Year(t1.date) = index \div 12
              /\ Month(t1.date) = (index % 12) + 1
              /\ Day(t1.date) = IF Day(t0.date) < last THEN Day(t0.date) ELSE last
              /\ Day(t1.date) >= 1
              /\ t1.min = t0.min
    /\ CalculateNextTime([date |-> 20240131, min |-> 0], "months", 1).date = 20240229
    /\ CalculateNextTime([date |-> 20230131, min |-> 0], "months", 1).date = 20230228

\* months were added to a time of the 31st, not at midnight, and the day was clamped
C12_Witness ==
    /\ result.op = "months"
    /\ Day(result.old_time.date) = 31 /\ Day(result.new_time.date) < 31
    /\ result.new_time.min # 0

\* C13: an advance with a unit that is not minutes, hours, days or months fails
\* and changes nothing: the clock, the pending cache in memory and on disk, the last
\* values and every archive tier are as before the call
C13_InvalidUnitChangesNothing ==
    [][(result'.op = "advance" /\ ~result'.ok)
          => UNCHANGED <<accounts, current_time, latest_readings, daily_cache, cache_file,
                         folders, daily_files, detail_files, year_dirs, summary_files>>]_vars

\* an advance with an unknown unit has failed on a system that has pending readings
\* not yet on disk and archived days
C13_Witness ==
    /\ result.op = "advance" /\ ~result.ok
    /\ daily_cache # <<>> /\ LoadCache(cache_file) # daily_cache
    /\ detail_files # <<>>

\* the readings reading_generator.collect generates in the current state for an
\* advance by `value` units
GeneratedBy(unit, value, inc) ==
    GenerateReadings(accounts, latest_readings, current_time,
                     CalculateNextTime(current_time, unit, value), inc).readings

\* C14: no reading generated by an advance, from any reachable clock, has a time of
\* day in the maintenance window (hour 0)
C14_NoReadingInMaintenance ==
    \A a \in ClockInputs, inc \in Increments :
        LET generated == GeneratedBy(a[1], a[2], inc)
        IN  \A i \in 1..Len(generated) : Hour(generated[i].min) # 0

\* with a registered meter, readings are generated from a clock inside the
\* maintenance window, and readings are generated over a midnight
C14_Witness ==
    /\ accounts # <<>>
    /\ \/ Hour(current_time.min) = 0 /\ GeneratedBy("hours", 2, 2) # <<>>
       \/ /\ Hour(current_time.min) = 23
          /\ \E i \in 1..Len(GeneratedBy("days", 1, 2)) :
                 GeneratedBy("days", 1, 2)[i].date # current_time.date

\* C15: every reading generated by an advance from t0 to t1 has its timestamp in
\* [t0, t1): none is earlier than t0, none is at t1 or later
C15_GeneratedWithinInterval ==
    \A a \in ClockInputs, inc \in Increments :
        LET generated == GeneratedBy(a[1], a[2], inc)
            t1 == CalculateNextTime(current_time, a[1], a[2])
        IN  \A i \in 1..Len(generated) :
                /\ ~TimeLT(generated[i], current_time)
                /\ TimeLT(generated[i], t1)

\* C20: when the interval generated for a day starts at midnight, the first reading
\* of each meter on that day is at 01:00
C20_FirstReadingAtOne ==
    \A a \in ClockInputs, inc \in Increments :
        LET generated == GeneratedBy(a[1], a[2], inc)
        IN  (current_time.min = 0 /\ generated # <<>>)
                => \A m \in Range(accounts) :
                       LET mine == ReadingsOfMeter(generated, m)
                       IN  mine[1].date = current_time.date /\ mine[1].min = 60

\* the readings of a meter in a monthly detail, each with its date
DetailReadings(detail, m) ==
    UNION { { [date |-> detail[m][i].date, time |-> detail[m][i].readings[j].time,
               value |-> detail[m][i].readings[j].value] :
                 j \in 1..Len(detail[m][i].readings) } :
            i \in 1..Len(detail[m]) }

\* reading a is not later than reading b, by date then time
NotLater(a, b) == a.date < b.date \/ (a.date = b.date /\ a.time <= b.time)

\* the summary has an entry exactly for the meters with a reading in the detail:
\* two readings of the detail, none of the detail earlier than the first or later
\* than the second
FirstAndLast(summary, detail) ==
    /\ DOMAIN summary = {m \in DOMAIN detail : DetailReadings(detail, m) # {}}
    /\ \A m \in DOMAIN summary :
          /\ Len(summary[m].readings) = 2
          /\ summary[m].readings[1] \in DetailReadings(detail, m)
          /\ summary[m].readings[2] \in DetailReadings(detail, m)
          /\ \A r \in DetailReadings(detail, m) :
                NotLater(summary[m].readings[1], r) /\ NotLater(r, summary[m].readings[2])

\* the state after archive has run for the month after ym
Archived(ym) == Archive(Sys, NextYM(ym))

\* C16: the summary archive writes for a month holds, for each meter with a reading
\* in the month's detail, the earliest and the latest reading of the meter (by date,
\* then time), and no entry for the other meters
C16_SummaryIsFirstAndLast ==
    \A ym \in DOMAIN detail_files :
        LET after == Archived(ym)
        IN  ym \in DOMAIN after.summary_files
                => FirstAndLast(after.summary_files[ym], after.detail_files[ym])

\* archive writes a summary of a detail in which a meter has readings of several
\* days, not in order of time, while another registered meter has none
C16_Witness ==
    \E ym \in DOMAIN detail_files :
        LET after == Archived(ym)
        IN  /\ ym \in DOMAIN after.summary_files
            /\ \E m \in DOMAIN after.summary_files[ym] :
                  /\ Len(after.detail_files[ym][m]) > 1
                  /\ after.summary_files[ym][m].readings[1].time
                        # after.detail_files[ym][m][1].readings[1].time
            /\ \E m \in Range(accounts) : m \notin DOMAIN after.summary_files[ym]

\* C17: a monthly summary that has been written is still there, with the same
\* content, after every later advance and registration
C17_SummaryNeverRewritten ==
    [][result'.op \in {"advance", "register"}
          => \A ym \in DOMAIN summary_files :
                 ym \in DOMAIN summary_files' /\ summary_files'[ym] = summary_files[ym]]_vars

\* the summary of a month with readings is on disk and an advance has since been
\* made from the month after it to a later month
C17_Witness ==
    /\ result.op = "advance" /\ result.ok
    /\ \E ym \in DOMAIN summary_files :
          /\ summary_files[ym] # <<>>
          /\ ym < YM(result.old_time.date)
          /\ YM(result.old_time.date) < YM(result.new_time.date)

\* C18: registering an id that is not registered adds the account, sets the last
\* value of the meter to 0 and appends to the pending cache one reading of the meter,
\* with value 0, at the current time
C18_RegisterSeedsZeroReading ==
    [][(result'.op = "register" /\ result'.ok)
          => /\ Len(accounts') = Len(accounts) + 1
             /\ SubSeq(accounts', 1, Len(accounts)) = accounts
             /\ LET m == accounts'[Len(accounts')]
                IN  /\ m \notin Range(accounts)
                    /\ m \in DOMAIN latest_readings' /\ latest_readings'[m] = 0
                    /\ \A k \in DOMAIN latest_readings \ {m} :
                          k \in DOMAIN latest_readings' /\ latest_readings'[k] = latest_readings[k]
                    /\ daily_cache' = Append(daily_cache,
                                             [meter_id |-> m, date |-> current_time.date,
                                              min |-> current_time.min, meter_value |-> 0])
             /\ current_time' = current_time]_vars

\* a second meter has been registered after the clock was advanced, with readings of
\* the first meter pending
C18_Witness ==
    /\ result.op = "register" /\ result.ok
    /\ Len(accounts) = 2
    /\ current_time # [date |-> 20240501, min |-> 0]
    /\ Len(daily_cache) > 2
    /\ daily_cache[Len(daily_cache)].meter_id = accounts[2]

\* C19: registering an id that is already registered fails and leaves the account
\* list, the pending cache and the last values unchanged; the ids of the account
\* list are always distinct
C19_DuplicateRegistrationRejected ==
    [][/\ (result'.op = "register" /\ ~result'.ok)
            => UNCHANGED <<accounts, daily_cache, latest_readings, cache_file>>
       /\ \A i, j \in 1..Len(accounts') : i # j => accounts'[i] # accounts'[j]]_vars

\* the registration of an id that is in the account list has failed, with readings
\* pending
C19_Witness ==
    /\ result.op = "register" /\ ~result.ok
    /\ accounts # <<>> /\ daily_cache # <<>>

\* the readings the advance just made generated that are still pending: the last
\* readings_count readings of the pending cache (all of it after a day rollover)
LastGenerated ==
    IF result.op = "advance" /\ result.ok
    THEN LET n == IF result.readings_count < Len(daily_cache)
                  THEN result.readings_count ELSE Len(daily_cache)
         IN  SubSeq(daily_cache, Len(daily_cache) - n + 1, Len(daily_cache))
    ELSE <<>>

\* two readings of one meter with the same timestamp
SameSlot(a, b) == a.meter_id = b.meter_id /\ a.date = b.date /\ a.min = b.min

\* C21: no meter has two generated readings with the same timestamp: the readings
\* an advance generates are all of different (meter, timestamp), and none has the
\* meter and timestamp of a reading the advance before it generated
C21_OneReadingPerSlot ==
    \A a \in ClockInputs, inc \in Increments :
        LET generated == GeneratedBy(a[1], a[2], inc)
            before == LastGenerated
        IN  /\ \A i, j \in 1..Len(generated) : i # j => ~SameSlot(generated[i], generated[j])
            /\ \A i \in 1..Len(generated), j \in 1..Len(before) :
                  ~SameSlot(generated[i], before[j])

\* the dates of the readings of the pending cache
CacheDates == {daily_cache[i].date : i \in 1..Len(daily_cache)}

\* the state after the per-day commit of date D with the pending readings of D
Committed(D) == Process(Sys, ReadingsOn(daily_cache, D), D)

\* the payload of meter m in the daily file `file` is that of its readings in rs, in
\* order, with date D
IsPayloadOf(file, rs, D) ==
    /\ DOMAIN file = {rs[i].meter_id : i \in 1..Len(rs)}
    /\ \A m \in DOMAIN file :
          LET mine == ReadingsOfMeter(rs, m)
          IN  /\ file[m].date = D
              /\ Len(file[m].readings) = Len(mine)
              /\ \A i \in 1..Len(mine) :
                    /\ file[m].readings[i].time = HHMM(mine[i].min)
                    /\ file[m].readings[i].value = Round3(mine[i].meter_value)

\* the monthly detail of month ym, the empty aggregate when there is none
DetailOf(details, ym) == IF ym \in DOMAIN details THEN details[ym] ELSE <<>>

\* the days of meter m in an aggregate
DaysOf(detail, m) == IF m \in DOMAIN detail THEN detail[m] ELSE <<>>

\* C22: the per-day commit of day D writes the daily file of D; if the daily file of
\* day D-1 exists, each meter's payload of it is appended to the monthly detail of
\* the month of D-1, after the entries the detail had, and the daily file of D-1 is
\* deleted; the daily file of D is not folded: it stays and no other detail changes
C22_CommitFoldsPreviousDay ==
    \A D \in CacheDates :
        LET after == Committed(D)
            prev == PrevDay(D)
            ym == YM(prev)
            old == DetailOf(detail_files, ym)
            new == DetailOf(after.detail_files, ym)
        IN  /\ D \in DOMAIN after.daily_files
            /\ IsPayloadOf(after.daily_files[D], ReadingsOn(daily_cache, D), D)
            /\ prev \in DOMAIN daily_files =>
                  /\ prev \notin DOMAIN after.daily_files
                  /\ DOMAIN new = DOMAIN old \cup DOMAIN daily_files[prev]
                  /\ \A m \in DOMAIN new :
                        new[m] = DaysOf(old, m) \o
                                   (IF m \in DOMAIN daily_files[prev]
                                    THEN <<daily_files[prev][m]>> ELSE <<>>)
            /\ \A other \in (DOMAIN detail_files \cup DOMAIN after.detail_files) \ {ym} :
                  /\ other \in DOMAIN detail_files /\ other \in DOMAIN after.detail_files
                  /\ after.detail_files[other] = detail_files[other]
            /\ \A d \in DOMAIN daily_files \ {prev, D} :
                  d \in DOMAIN after.daily_files /\ after.daily_files[d] = daily_files[d]

\* a day is committed while the daily file of the day before exists and the monthly
\* detail already holds an earlier day of a meter of that file
C22_Witness ==
    \E D \in CacheDates :
        /\ PrevDay(D) \in DOMAIN daily_files
        /\ \E m \in DOMAIN daily_files[PrevDay(D)] :
              DaysOf(DetailOf(detail_files, YM(PrevDay(D))), m) # <<>>
        /\ Committed(D).detail_files # detail_files

\* the readings of meter m dated in month ym that state s holds in the monthly
\* detail, in daily files and in the pending cache
MonthReadings(s, ym, m) ==
    (IF ym \in DOMAIN s.detail_files /\ m \in DOMAIN s.detail_files[ym]
     THEN DetailReadings(s.detail_files[ym], m) ELSE {})
    \cup UNION { { [date |-> d, time |-> s.daily_files[d][m].readings[j].time,
                    value |-> s.daily_files[d][m].readings[j].value] :
                      j \in 1..Len(s.daily_files[d][m].readings) } :
                 d \in {x \in DOMAIN s.daily_files : YM(x) = ym /\ m \in DOMAIN s.daily_files[x]} }
    \cup { [date |-> s.daily_cache[i].date, time |-> HHMM(s.daily_cache[i].min),
            value |-> Round3(s.daily_cache[i].meter_value)] :
              i \in {k \in 1..Len(s.daily_cache) :
                       s.daily_cache[k].meter_id = m /\ YM(s.daily_cache[k].date) = ym} }

\* archive(current) in state s computes the summary of the month before current
ComputesSummary(s, current) ==
    /\ ~(PrevYM(current) * 100 + 1 < EpochDate)
    /\ PrevYM(current) \in DOMAIN ForcedFold(s, PrevYM(current)).detail_files

\* when archive(current) computes the summary in state s, no daily file of the month
\* is left and the last reading of each meter in the summary is the latest reading
\* of the month that s holds for it
FoldedAtSummary(s, current) ==
    LET ym == PrevYM(current)
        at_summary == ForcedFold(s, ym)
        after == Archive(s, current)
    IN  ComputesSummary(s, current) =>
            /\ \A d \in DOMAIN at_summary.daily_files : YM(d) # ym
            /\ \A m \in Range(s.accounts) :
                  MonthReadings(s, ym, m) # {} =>
                      /\ m \in DOMAIN after.summary_files[ym]
                      /\ \A r \in MonthReadings(s, ym, m) :
                            NotLater(r, after.summary_files[ym][m].readings[2])

\* FoldedAtSummary at every call of archive that archive_all makes
RECURSIVE FoldedInLoop(_, _, _)
FoldedInLoop(s, current, end) ==
    IF current <= end
    THEN FoldedAtSummary(s, current) /\ FoldedInLoop(Archive(s, current), NextYM(current), end)
    ELSE TRUE

\* the advance in flight is about to run the month rollover
AtMonthlyRollover ==
    pc = "resaved" /\ Month(req.old_time.date) # Month(req.new_time.date)

\* C23: whenever an advance computes the summary of a month, no daily file of a day
\* of that month is left on disk, and the last reading of each meter in the summary
\* is the latest reading of the month
C23_NoUnfoldedDayAtSummary ==
    AtMonthlyRollover =>
        FoldedInLoop(SysInFlight, NextYM(YM(req.old_time.date)), YM(req.new_time.date))

\* the month rollover of an advance finds the daily file of the last day of the
\* month not folded yet, and computes the summary of that month with readings
C23_Witness ==
    /\ AtMonthlyRollover
    /\ LET current == NextYM(YM(req.old_time.date))
       IN  /\ LastDayOf(PrevYM(current)) \in DOMAIN daily_files
           /\ ComputesSummary(SysInFlight, current)
           /\ Archive(SysInFlight, current).summary_files[PrevYM(current)] # <<>>

\* the advance in flight is about to run the day rollover, and the date changes
AtDailyRollover == pc = "saved" /\ req.old_time.date # req.new_time.date

\* the state after the day rollover of the advance in flight
Rolled == DailyRollover(SysInFlight, req.old_time, req.new_time)

\* the dates of the per-day commits a sequence of archiver calls holds, in order
CommitDates(calls) ==
    LET IsCommit(c) == c.op = "process"
        commits == SelectSeq(calls, IsCommit)
    IN  <<>> \o [i \in 1..Len(commits) |-> commits[i].arg]

\* the payload of date D with the readings rs (of one meter) is in the daily file of
\* D or among the days of the meter in the monthly detail of the month of D
CommittedAs(s, m, D, rs) ==
    LET Is(p) == /\ p.date = D
                 /\ Len(p.readings) = Len(rs)
                 /\ \A i \in 1..Len(rs) :
                       /\ p.readings[i].time = HHMM(rs[i].min)
                       /\ p.readings[i].value = Round3(rs[i].meter_value)
        days == DaysOf(DetailOf(s.detail_files, YM(D)), m)
    IN  \/ D \in DOMAIN s.daily_files /\ m \in DOMAIN s.daily_files[D] /\ Is(s.daily_files[D][m])
        \/ \E i \in 1..Len(days) : Is(days[i])

\* C24: after the day rollover of an advance that crosses a day boundary the pending
\* cache holds exactly the cached readings of the date of the new time, in their
\* order; one per-day commit was made for each earlier date of the cache, with the
\* readings of that date; and every cached reading is of the new date or of a
\* committed date
C24_RolloverPartitionsCache ==
    AtDailyRollover =>
        LET rolled == Rolled
            today == req.new_time.date
            Today(r) == r.date = today
            commits == CommitDates(SubSeq(rolled.calls, Len(req.calls) + 1, Len(rolled.calls)))
            earlier == {d \in CacheDates : d < today}
        IN  /\ rolled.daily_cache = SelectSeq(daily_cache, Today)
            /\ Range(commits) = earlier
            /\ Len(commits) = Cardinality(earlier)
            /\ \A i \in 1..Len(daily_cache) : daily_cache[i].date <= today
            /\ \A D \in earlier : \A m \in Range(accounts) :
                  LET rs == ReadingsOfMeter(ReadingsOn(daily_cache, D), m)
                  IN  rs # <<>> => CommittedAs(rolled, m, D, rs)

\* the day rollover of an advance finds readings of two earlier dates and readings
\* of the new date in the cache
C24_Witness ==
    /\ AtDailyRollover
    /\ Cardinality({d \in CacheDates : d < req.new_time.date}) >= 2
    /\ req.new_time.date \in CacheDates
    /\ Rolled.daily_cache # <<>>

\* C25: in an advance that crosses a day and a month boundary, the per-day commits
\* are made in increasing order of date and all of them before the first call of
\* archive
C25_CommitsBeforeArchive ==
    (/\ result.op = "advance" /\ result.ok
     /\ result.old_time.date # result.new_time.date
     /\ YM(result.old_time.date) # YM(result.new_time.date))
        => \A i, j \in 1..Len(result.calls) :
              /\ (result.calls[i].op = "process" /\ result.calls[j].op = "archive") => i < j
              /\ (result.calls[i].op = "process" /\ result.calls[j].op = "process" /\ i < j)
                    => result.calls[i].arg < result.calls[j].arg

\* an advance over a month boundary has committed several days and then called
\* archive
C25_Witness ==
    /\ result.op = "advance" /\ result.ok
    /\ YM(result.old_time.date) # YM(result.new_time.date)
    /\ Len(CommitDates(result.calls)) >= 2
    /\ \E i \in 1..Len(result.calls) : result.calls[i].op = "archive"

\* the numbers of months between the two times archive_all is called with
RangeMonths == {0, 1, 2, 3, 13}

\* the reference months of the calls of archive a sequence of calls holds, in order
ArchiveMonths(calls) ==
    LET IsArchive(c) == c.op = "archive"
        archives == SelectSeq(calls, IsArchive)
    IN  <<>> \o [i \in 1..Len(archives) |-> archives[i].arg]

\* the state after archive_all(current_time, current_time + k months)
ArchivedRange(k) == ArchiveAll(Sys, current_time, CalculateNextTime(current_time, "months", k))

\* C26: archive_all(old, new) with old <= new calls archive once for each month
\* after the month of old up to the month of new, in increasing order; the months
\* whose summary it writes are the months from that of old to the one before that of
\* new that have a monthly detail, and no other summary changes
C26_ArchiveRangeCalls ==
    \A k \in RangeMonths :
        LET done == ArchivedRange(k)
            called == ArchiveMonths(done.calls)
            old_ym == YM(current_time.date)
            new_ym == YM(CalculateNextTime(current_time, "months", k).date)
        IN  /\ Len(called) = k
            /\ \A i \in 1..Len(called) :
                  called[i] = (IF i = 1 THEN NextYM(old_ym) ELSE NextYM(called[i - 1]))
            /\ called # <<>> => called[Len(called)] = new_ym
            /\ \A ym \in DOMAIN detail_files :
                  (old_ym <= ym /\ ym < new_ym) => ym \in DOMAIN done.summary_files
            /\ \A ym \in DOMAIN done.summary_files :
                  \/ old_ym <= ym /\ ym < new_ym /\ NextYM(ym) \in Range(called)
                  \/ ym \in DOMAIN summary_files /\ done.summary_files[ym] = summary_files[ym]

\* archive_all over several months writes the summary of a month with readings
C26_Witness ==
    \E k \in RangeMonths :
        /\ Len(ArchiveMonths(ArchivedRange(k).calls)) >= 2
        /\ YM(current_time.date) \in DOMAIN detail_files
        /\ YM(current_time.date) \in DOMAIN ArchivedRange(k).summary_files
        /\ ArchivedRange(k).summary_files[YM(current_time.date)] # <<>>

\* reference months whose target month is before 2024-05
EarlyReferenceMonths == {202405, 202404, 202401, 202312}

\* the files and directories of a state
FilesOf(s) ==
    <<s.accounts, s.current_time, s.cache_file, s.folders, s.daily_files, s.detail_files,
      s.year_dirs, s.summary_files>>

\* C27: archive with a reference date whose month before is earlier than 2024-05
\* returns without writing a summary and without changing any file or directory
C27_ArchiveBeforeEpochSkipped ==
    \A ym \in EarlyReferenceMonths :
        /\ PrevYM(ym) < 202405
        /\ FilesOf(Archive(Sys, ym)) = FilesOf(Sys)
        /\ Archive(Sys, ym).daily_cache = daily_cache
        /\ Archive(Sys, ym).latest_readings = latest_readings

\* archive is called for 2024-04 while the folder of 2024-04 holds a detail file
\* (the one the commit of 2024-05-01 writes) and a daily file is on disk: a summary of
\* 2024-04 could be written, and is not
C27_Witness ==
    /\ 202404 \in DOMAIN detail_files /\ 202404 \in folders
    /\ daily_files # <<>>
    /\ 202404 \notin DOMAIN Archive(Sys, 202405).summary_files
    /\ FilesOf(Archive(Sys, 202405)) = FilesOf(Sys)

\* the daily file of date d cannot be used: it is missing or unparsable
Unreadable(d) == d \notin DOMAIN daily_files \/ ~Parsable(daily_files[d])

\* the aggregate process loads for month ym: empty when the detail file is missing
\* or unparsable
LoadedDetail(ym) ==
    IF ym \in DOMAIN detail_files /\ Parsable(detail_files[ym]) THEN detail_files[ym] ELSE <<>>

\* C28: the per-day commit of day D writes the daily file of D when the daily file
\* of day D-1 is missing or unparsable, and then appends nothing to the monthly
\* detail: the detail written is the aggregate that was loaded; an unparsable detail
\* is loaded as the empty aggregate, so that the detail written is parsable and holds
\* only what this commit folds
C28_CommitToleratesBadFiles ==
    \A D \in CacheDates :
        LET after == Committed(D)
            prev == PrevDay(D)
            ym == YM(prev)
        IN  /\ Unreadable(prev) =>
                  /\ D \in DOMAIN after.daily_files
                  /\ IsPayloadOf(after.daily_files[D], ReadingsOn(daily_cache, D), D)
                  /\ ym \in DOMAIN after.detail_files
                  /\ after.detail_files[ym] = LoadedDetail(ym)
            /\ (ym \in DOMAIN detail_files /\ ~Parsable(detail_files[ym])) =>
                  /\ D \in DOMAIN after.daily_files
                  /\ IsPayloadOf(after.daily_files[D], ReadingsOn(daily_cache, D), D)
                  /\ Parsable(after.detail_files[ym])
                  /\ \A m \in DOMAIN after.detail_files[ym] :
                        /\ ~Unreadable(prev) /\ m \in DOMAIN daily_files[prev]
                        /\ after.detail_files[ym][m] = <<daily_files[prev][m]>>

\* a day is committed while the daily file of the day before and the monthly detail
\* are both unparsable
C28_Witness ==
    \E D \in CacheDates :
        /\ PrevDay(D) \in DOMAIN daily_files /\ ~Parsable(daily_files[PrevDay(D)])
        /\ YM(PrevDay(D)) \in DOMAIN detail_files /\ ~Parsable(detail_files[YM(PrevDay(D))])
        /\ D \in DOMAIN Committed(D).daily_files
        /\ Committed(D).detail_files[YM(PrevDay(D))] = <<>>

\* the increments of the advance made after a restart
LaterIncrements == {1, 2}

\* C29: after a restart, the last value of every meter with readings in
\* daily_cache.json is the value of a reading of the meter with the latest
\* reading_time of the file, and the first reading an advance then generates for the
\* meter is not lower than the last reading of the meter written to the file
C29_RestartKeepsLastValue ==
    result.op = "restart" =>
        \A m \in {k \in Range(cache_file.keys) : cache_file.data[k] # <<>>} :
            LET rs == cache_file.data[m]
            IN  /\ m \in DOMAIN latest_readings
                /\ \E i \in 1..Len(rs) :
                      /\ \A j \in 1..Len(rs) : ~ReadingTimeLT(rs[i], rs[j])
                      /\ latest_readings[m] = rs[i].meter_value
                /\ \A a \in ClockInputs, inc \in LaterIncrements :
                      LET mine == ReadingsOfMeter(GeneratedBy(a[1], a[2], inc), m)
                      IN  mine # <<>> => mine[1].meter_value >= rs[Len(rs)].meter_value

\* C30: an advance whose two times are on the same calendar date leaves the daily
\* files, the monthly details, the monthly summaries, their directories and the
\* account list unchanged
C30_SameDayAdvanceFrame ==
    [][(/\ result'.op = "advance" /\ result'.ok
        /\ advances' = advances + 1
        /\ current_time'.date = current_time.date)
          => UNCHANGED <<accounts, folders, daily_files, detail_files, year_dirs,
                         summary_files>>]_vars

\* an advance within one date has generated readings on a system that has a
\* monthly detail and a monthly summary
C30_Witness ==
    /\ result.op = "advance" /\ result.ok
    /\ result.old_time.date = result.new_time.date
    /\ result.readings_count > 0
    /\ daily_cache # <<>> /\ LoadCache(cache_file) = daily_cache
    /\ detail_files # <<>> /\ summary_files # <<>>

\* C33: between operations, at most one daily file is on disk, and it is the file of
\* the calendar day before the date of the clock
C33_OneDailyFileOfYesterday ==
    pc = "idle" =>
        /\ Cardinality(DOMAIN daily_files) <= 1
        /\ \A d \in DOMAIN daily_files : d = PrevDay(current_time.date)

\* the daily file of the day before the clock is on disk after earlier days have
\* been folded into the monthly detail
C33_Witness ==
    /\ pc = "idle"
    /\ PrevDay(current_time.date) \in DOMAIN daily_files
    /\ advances = 2
    /\ \E ym \in DOMAIN detail_files : \E m \in DOMAIN detail_files[ym] :
          Len(detail_files[ym][m]) >= 2

\* C34: in every monthly detail, the days of each meter are of dates of the month of
\* the detail, in increasing order of date, each date once
C34_DetailDatesOrdered ==
    \A ym \in DOMAIN detail_files : \A m \in DOMAIN detail_files[ym] :
        LET days == detail_files[ym][m]
        IN  /\ \A i \in 1..Len(days) : YM(days[i].date) = ym
            /\ \A i, j \in 1..Len(days) : i < j => days[i].date < days[j].date

\* a monthly detail holds several days of a meter, the last day of the month among
\* them (folded by archive)
C34_Witness ==
    \E ym \in DOMAIN detail_files : \E m \in DOMAIN detail_files[ym] :
        /\ Len(detail_files[ym][m]) >= 2
        /\ detail_files[ym][m][Len(detail_files[ym][m])].date = LastDayOf(ym)
        /\ ym \in DOMAIN summary_files

\* the daily files a step removes have every meter's payload in the monthly detail
\* that is on disk after the step
DeletedAfterWritten ==
    \A d \in DOMAIN daily_files \ DOMAIN daily_files' :
        Parsable(daily_files[d]) =>
            LET after == DetailOf(detail_files', YM(d))
            IN  /\ Parsable(after)
                /\ \A m \in DOMAIN daily_files[d] :
                      \E i \in 1..Len(DaysOf(after, m)) : after[m][i] = daily_files[d][m]

\* C32: in every fold of a daily file into a monthly detail, by process or by
\* archive, the daily file is deleted only once the monthly detail holding its
\* payloads is written: no file operation, hence no crash between two of them,
\* leaves a day's readings in neither the daily file nor the monthly detail
C32_DeleteOnlyAfterDetailWritten == [][DeletedAfterWritten]_vars

\* the part of C32 about archive: the forced fold removes the daily file after the
\* detail is written
ForcedFoldDeletesAfterWritten ==
    [][pc = "archive_remove" => DeletedAfterWritten]_vars
\* both requests have returned
BothDone == \A r \in Requests : pc[r] = "done"

\* both requests read the clock in collect before either wrote it: the clock only
\* moves forward, so they read the same time
BothReadBeforeWrite == req[1].current_time = req[2].current_time

\* the clock after the increments of both requests, one after the other
BothIncrements ==
    CalculateNextTime(req[1].next_time, req[2].unit, req[2].value)

\* C31: when two advances interleave so that both read the clock before either
\* writes it, an update is lost: once both have returned, the persisted clock is
\* the next_time of one of them, the time read plus one of the two increments,
\* and not the time read plus both
C31_LostClockUpdate ==
    BothDone /\ BothReadBeforeWrite =>
        /\ current_time \in {req[r].next_time : r \in Requests}
        /\ current_time # BothIncrements

\* the meters' readings of date d that the daily file of d holds
HeldBy(d) == {Len(daily_files[d][m].readings) : m \in DOMAIN daily_files[d]}

\* two advances of one day both read the start clock; the clock is one day later,
\* and the daily file of the day, rewritten by the request that committed last,
\* holds fewer readings of a meter than the two requests generated for it
C31_Witness ==
    /\ BothDone
    /\ BothReadBeforeWrite
    /\ accounts # <<>>
    /\ current_time = req[1].next_time
    /\ current_time.date = AddDays(req[1].current_time.date, 1)
    /\ req[2].next_time = current_time
    /\ current_time.date \notin DOMAIN daily_files
    /\ \E d \in DOMAIN daily_files :
          \E n \in HeldBy(d) :
              n * Len(accounts) < req[1].readings_count + req[2].readings_count
====
